---- MODULE Spec2Model ----
(***************************************************************************)
(* Model of the Daily Time Record calculator (src/main.py).                *)
(*                                                                         *)
(* Conventions                                                             *)
(*  - A day fraction (a float with three decimals in the source) is an     *)
(*    integer number of thousandths: 0.125 is 125, 1.000 is 1000.  Every   *)
(*    table entry is a multiple of 0.001 and round(x, 3) of a sum of such  *)
(*    floats is the exact sum, so the integers are the values shown by     *)
(*    the "{x:.3f}" labels.                                                *)
(*  - A time of day (datetime.time, seconds always 0) is its number of     *)
(*    minutes since midnight, 0..1439; None is NoTime.                     *)
(*  - A text in the format "%I:%M %p" is the record of its three parts     *)
(*    [hh, mm, ampm]; the texts "--:-- --" and "(Flexi - ...)" are         *)
(*    records with the single field text.                                  *)
(*  - A date is the record [year, month, day].                             *)
(***************************************************************************)
EXTENDS Integers, Sequences, FiniteSets, TLC

VARIABLES
    \* ---- DailyTimeRecordApp fields and widgets ----
    selected_date,                          \* self.selected_date
    current_day,                            \* self.current_day
    morning_check,                          \* self.morning_check (BooleanVar)
    afternoon_check,                        \* self.afternoon_check (BooleanVar)
    morning_actual_time_in,                 \* the hour/minute/ampm StringVars of the morning entry
    afternoon_actual_time_out,              \* the hour/minute/ampm StringVars of the afternoon entry
    label_supposed_time_in,                 \* text after "Supposed Time In: "
    label_supposed_time_out,                \* text after "Supposed Time Out: "
    label_morning_late,                     \* N of "Late: N minutes"
    label_morning_late_deduction,           \* thousandths of "Late Deduction: x"
    label_afternoon_undertime,              \* N of "Undertime: N minutes"
    label_afternoon_undertime_deduction,    \* thousandths of "Undertime Deduction: x"
    label_deductions,                       \* thousandths of "Total Deduction Points: x"
    records,                                \* self.records
    current_records,                        \* self.current_records
    search_active,                          \* self.search_active
    data_file,                              \* the list stored in DATA_FILE (dtr_records.json)
    csv_file,                               \* the file written by the last export
    search_from, search_to,                 \* the dates shown by the From and To combo boxes of the search
    sort_states,                            \* self.sort_states
    last_search,                            \* the range of the last search that was carried out
    last_event,                             \* the handler that ran last and how it ended
    \* ---- one call of convert_time_diff_to_day_fraction ----
    fr_hours, fr_minutes, fr_minutes2,      \* arguments (a second minutes argument to compare with)
    fr_called,                              \* TRUE once the function has returned
    fr_result, fr_result2,                  \* the values returned for (hours, minutes) and (hours, minutes2)
    \* ---- one use of the time picker on an entry ----
    pk_time,                                \* the time the entry holds when the picker is opened
    pk_called,                              \* TRUE once the picker has been closed with OK
    pk_time_obj,                            \* time_obj that open_time_picker reads from the entry
    pk_display,                             \* hour, minute and AM/PM that the dialog shows at first
    pk_selected_time,                       \* selected_time that on_ok returns
    pk_entry                                \* the entry that open_time_picker writes back

form_vars == <<selected_date, current_day, morning_check, afternoon_check,
               morning_actual_time_in, afternoon_actual_time_out,
               label_supposed_time_in, label_supposed_time_out,
               label_morning_late, label_morning_late_deduction,
               label_afternoon_undertime, label_afternoon_undertime_deduction,
               label_deductions>>

history_vars == <<records, current_records, search_active, data_file, csv_file>>

pk_vars == <<pk_time, pk_called, pk_time_obj, pk_display, pk_selected_time, pk_entry>>

call_vars == <<fr_hours, fr_minutes, fr_minutes2, fr_called, fr_result, fr_result2, pk_vars>>

view_vars == <<search_from, search_to, sort_states, last_search>>

fr_vars == <<call_vars, view_vars>>

vars == <<form_vars, history_vars, last_event, fr_vars>>

-----------------------------------------------------------------------------
(* Bounds of the checked inputs *)

\* hours arguments are drawn from -2..MaxHoursArg
MaxHoursArg == 10
\* minutes arguments are drawn from -2..MaxMinutesArg
MaxMinutesArg == 62
\* records kept by the runs that export the history
MaxHistoryRecords == 2
\* records kept by the runs that save whatever the form shows
MaxSavedRecords == 1
\* records kept by the runs that edit records
MaxEditRecords == 1
\* minutes late (or short) are drawn from 0..MaxLateMinutes
MaxLateMinutes == 1439
\* times of the entry that the picker is opened on are drawn from 0..MaxPickerTime
MaxPickerTime == 1439
\* records kept by the runs that search, sort and delete
MaxViewRecords == 2
\* records in the data file that the runs that delete start with
MaxDeleteRecords == 3

-----------------------------------------------------------------------------
(* Python builtins *)

Min(a, b) == IF a <= b THEN a ELSE b

Max(a, b) == IF a >= b THEN a ELSE b

\* round(x, 3) of a sum of floats that are multiples of 0.001, in thousandths
Round3(thousandths) == thousandths

-----------------------------------------------------------------------------
(* Conversion tables, in thousandths of a day *)

MinutesColumn ==
    <<  0,   2,   4,   6,   8,  10,
       12,  15,  17,  19,  21,
       23,  25,  27,  29,  31,
       33,  35,  37,  40,  42,
       44,  46,  48,  50,  52,
       54,  56,  58,  60,  62,
       65,  67,  69,  71,  73,
       75,  77,  79,  81,  83,
       85,  87,  90,  92,  94,
       96,  98, 100, 102, 104,
      106, 108, 110, 112, 115,
      117, 119, 121, 123, 125 >>

\* a table that follows the linear rule round(m / 480, 3) at minute 30
MINUTES_TO_DAY_linear30 == [m \in 0..60 |-> IF m = 30 THEN 63 ELSE MinutesColumn[m + 1]]

\* a table with the entries of minutes 18 and 19 exchanged
MINUTES_TO_DAY_swapped ==
    [m \in 0..60 |-> IF m = 18 THEN 40 ELSE IF m = 19 THEN 37 ELSE MinutesColumn[m + 1]]

MINUTES_TO_DAY == [m \in 0..60 |-> MinutesColumn[m + 1]]

\* a table that has no entry for 8 hours
HOURS_TO_DAY_short ==
    1 :> 125 @@ 2 :> 250 @@ 3 :> 375 @@ 4 :> 500 @@
    5 :> 625 @@ 6 :> 750 @@ 7 :> 875

\* a table whose entry for 5 hours is below the entry for 4 hours
HOURS_TO_DAY_dip ==
    1 :> 125 @@ 2 :> 250 @@ 3 :> 375 @@ 4 :> 500 @@
    5 :> 400 @@ 6 :> 750 @@ 7 :> 875 @@ 8 :> 1000

HOURS_TO_DAY ==
    1 :> 125 @@ 2 :> 250 @@ 3 :> 375 @@ 4 :> 500 @@
    5 :> 625 @@ 6 :> 750 @@ 7 :> 875 @@ 8 :> 1000

\* dict.get(key, 0.0)
DictGet(dict, key) == IF key \in DOMAIN dict THEN dict[key] ELSE 0

\* the conversion with 0.125 for every hour, without the cap at 8 hours
convert_time_diff_to_day_fraction_uncapped(hours, minutes) ==
    LET h == Max(0, hours)
        m == Max(0, Min(minutes, 60))
    IN  Round3(h * 125 + DictGet(MINUTES_TO_DAY, m))

\* the conversion without the two clamping lines
convert_time_diff_to_day_fraction_unclamped(hours, minutes) ==
    Round3(DictGet(HOURS_TO_DAY, hours) + DictGet(MINUTES_TO_DAY, minutes))

convert_time_diff_to_day_fraction(hours, minutes) ==
    LET h == Max(0, Min(hours, 8))
        m == Max(0, Min(minutes, 60))
        day_fraction == DictGet(HOURS_TO_DAY, h) + DictGet(MINUTES_TO_DAY, m)
    IN  Round3(day_fraction)

-----------------------------------------------------------------------------
(* datetime: times of day and the format "%I:%M %p" *)

\* None, where a time is expected
NoTime == -1

SENTINEL == [text |-> "--:-- --"]

FLEXI_PLACEHOLDER == [text |-> "(Flexi - Will be determined on Calculate)"]

\* the text f"{hh}:{mm} {ampm}"
TimeText(hh, mm, ampm) == [hh |-> hh, mm |-> mm, ampm |-> ampm]

\* time(hour, minute)
time(hour, minute) == hour * 60 + minute

\* t.strftime("%I:%M %p")
strftime_I_M_p(t) ==
    LET hour == t \div 60
        hour_12 == IF hour % 12 = 0 THEN 12 ELSE hour % 12
    IN  TimeText(hour_12, t % 60, IF hour >= 12 THEN "PM" ELSE "AM")

\* datetime.strptime(text, "%I:%M %p").time(), NoTime where it raises ValueError
strptime_I_M_p(text) ==
    IF /\ "hh" \in DOMAIN text
       /\ text.hh \in 1..12
       /\ text.mm \in 0..59
       /\ text.ampm \in {"AM", "PM"}
    THEN time((text.hh % 12) + (IF text.ampm = "PM" THEN 12 ELSE 0), text.mm)
    ELSE NoTime

-----------------------------------------------------------------------------
(* datetime and calendar: dates *)

Date(year, month, day) == [year |-> year, month |-> month, day |-> day]

isleap(year) == (year % 4 = 0) /\ ((year % 100 # 0) \/ (year % 400 = 0))

\* calendar.monthrange(year, month)[1]
monthrange_days(year, month) ==
    IF month = 2 THEN (IF isleap(year) THEN 29 ELSE 28)
    ELSE IF month \in {4, 6, 9, 11} THEN 30 ELSE 31

\* datetime(year, month, day) raises ValueError unless this holds
ValidDate(year, month, day) ==
    /\ month \in 1..12
    /\ day \in 1..monthrange_days(year, month)

DayNames == <<"Sunday", "Monday", "Tuesday", "Wednesday", "Thursday", "Friday", "Saturday">>

\* date.strftime("%A")
strftime_A(date) ==
    LET t == <<0, 3, 2, 5, 0, 3, 5, 1, 4, 6, 2, 4>>
        y == IF date.month < 3 THEN date.year - 1 ELSE date.year
        dow == (y + (y \div 4) - (y \div 100) + (y \div 400) + t[date.month] + date.day) % 7
    IN  DayNames[dow + 1]

\* date + timedelta(days=1)
NextDay(date) ==
    IF date.day < monthrange_days(date.year, date.month)
    THEN Date(date.year, date.month, date.day + 1)
    ELSE IF date.month < 12 THEN Date(date.year, date.month + 1, 1)
    ELSE Date(date.year + 1, 1, 1)

\* date - timedelta(days=1)
PrevDay(date) ==
    IF date.day > 1
    THEN Date(date.year, date.month, date.day - 1)
    ELSE IF date.month > 1
    THEN Date(date.year, date.month - 1, monthrange_days(date.year, date.month - 1))
    ELSE Date(date.year - 1, 12, 31)

-----------------------------------------------------------------------------
(* The attendance policy *)

\* a policy with 8:30 AM on every working day
ALLOWED_TIMES_uniform ==
    "Monday"    :> time(8, 30) @@
    "Tuesday"   :> time(8, 30) @@
    "Wednesday" :> time(8, 30) @@
    "Thursday"  :> time(8, 30) @@
    "Friday"    :> time(8, 30)

\* ALLOWED_TIMES[day]["supposed_time_in"]
ALLOWED_TIMES ==
    "Monday"    :> time(8, 0)  @@
    "Tuesday"   :> time(8, 30) @@
    "Wednesday" :> time(8, 30) @@
    "Thursday"  :> time(8, 30) @@
    "Friday"    :> time(8, 30)

\* a lookup that falls back to 8:30 AM for a day without a policy entry
supposed_time_in_of_default(day) ==
    IF day \in DOMAIN ALLOWED_TIMES THEN ALLOWED_TIMES[day] ELSE time(8, 30)

\* ALLOWED_TIMES.get(day, {}).get("supposed_time_in")
supposed_time_in_of(day) ==
    IF day \in DOMAIN ALLOWED_TIMES THEN ALLOWED_TIMES[day] ELSE NoTime

\* the text update_supposed_time_in_label puts on label_supposed_time_in
supposed_time_in_text(date, morning) ==
    LET st == supposed_time_in_of(strftime_A(date))
    IN  IF morning
        THEN (IF st # NoTime THEN strftime_I_M_p(st) ELSE SENTINEL)
        ELSE SENTINEL

\* the only-afternoon rule with Monday and the other days exchanged
half_day_only_supposed_time_out_exchanged(day_name) ==
    IF day_name = "Monday" THEN time(17, 30) ELSE time(17, 0)

\* only the afternoon is worked: 5:00 PM on Monday, else 5:30 PM
half_day_only_supposed_time_out(day_name) ==
    IF day_name = "Monday" THEN time(17, 0) ELSE time(17, 30)

\* the text update_supposed_time_out_label puts on label_supposed_time_out
supposed_time_out_text(date, morning, afternoon) ==
    LET day_name == strftime_A(date)
    IN  IF ~afternoon THEN SENTINEL
        ELSE IF morning THEN FLEXI_PLACEHOLDER
        ELSE strftime_I_M_p(half_day_only_supposed_time_out(day_name))

\* the flexi rule without the Monday branch
flexi_supposed_time_out_no_monday(morning_in, day_name) ==
    LET in_minutes == IF morning_in < 450 THEN 450
                      ELSE IF morning_in > 510 THEN 510 ELSE morning_in
        out_minutes == in_minutes + 540
    IN  IF out_minutes < 990 THEN 990
        ELSE IF out_minutes > 1050 THEN 1050 ELSE out_minutes

\* the flexi rule: both halves are worked
flexi_supposed_time_out(morning_in, day_name) ==
    LET in_minutes == IF morning_in < 450 THEN 450
                      ELSE IF morning_in > 510 THEN 510 ELSE morning_in
        out_minutes == in_minutes + 540
        clamped == IF day_name = "Monday"
                   THEN (IF out_minutes < 990 THEN 990
                         ELSE IF out_minutes > 1020 THEN 1020 ELSE out_minutes)
                   ELSE (IF out_minutes < 990 THEN 990
                         ELSE IF out_minutes > 1050 THEN 1050 ELSE out_minutes)
    IN  time(clamped \div 60, clamped % 60)

\* the resolution with the fixed time out whenever the morning is unchecked
resolved_supposed_time_out_unchecked(morning, afternoon, morning_in, day_name) ==
    IF morning /\ afternoon
    THEN flexi_supposed_time_out(morning_in, day_name)
    ELSE IF ~morning
    THEN half_day_only_supposed_time_out(day_name)
    ELSE NoTime

\* supposed_time_out of calculate_deductions: flexi, only afternoon, or None
resolved_supposed_time_out(morning, afternoon, morning_in, day_name) ==
    IF morning /\ afternoon
    THEN flexi_supposed_time_out(morning_in, day_name)
    ELSE IF ~morning /\ afternoon
    THEN half_day_only_supposed_time_out(day_name)
    ELSE NoTime

parse_time_input(entry) == strptime_I_M_p(entry)

\* the difference with the two times exchanged
calculate_time_difference_reversed(earlier_time, later_time) == earlier_time - later_time

\* minutes from earlier_time to later_time on the same day, negative if later_time is earlier
calculate_time_difference(earlier_time, later_time) == later_time - earlier_time

\* a penalty of 0.25 for each unchecked half
half_day_deduction_quarter(morning, afternoon) ==
    ((IF ~morning THEN 1 ELSE 0) + (IF ~afternoon THEN 1 ELSE 0)) * 250

\* a penalty that counts one absence whichever halves are unchecked
half_day_deduction_single(morning, afternoon) ==
    IF morning /\ afternoon THEN 0 ELSE 500

\* half_day_absences * 0.5
half_day_deduction(morning, afternoon) ==
    ((IF ~morning THEN 1 ELSE 0) + (IF ~afternoon THEN 1 ELSE 0)) * 500

-----------------------------------------------------------------------------
(* Inputs of the checked runs *)

\* the dates the user visits: the week of Monday 2024-02-26 to Sunday 2024-03-03,
\* and the dates that month and year navigation reach from it
VisitDates ==
    { Date(2024, 2, 26), Date(2024, 2, 27), Date(2024, 2, 28), Date(2024, 2, 29),
      Date(2024, 3, 1), Date(2024, 3, 2), Date(2024, 3, 3),
      Date(2024, 2, 1), Date(2023, 2, 28) }

\* the values offered by the year, month and day combo boxes that the user picks
ComboYears == {2023, 2024}
ComboMonths == {2, 3}
ComboDays == {1, 28, 29, 30}

\* times the user enters as Actual Time In
MorningTimes ==
    { time(7, 0), time(7, 30), time(8, 15), time(8, 30), time(8, 45), time(9, 0), time(20, 45) }

\* times the user enters as Actual Time Out
AfternoonTimes == { time(5, 0), time(16, 30), time(17, 0), time(17, 30) }

\* entry contents that are not a time: minute 60, hour 13
InvalidMorningEntries == { TimeText(8, 60, "AM") }

InvalidAfternoonEntries == { TimeText(13, 0, "PM") }

MorningEntries == { strftime_I_M_p(t) : t \in MorningTimes } \cup InvalidMorningEntries

AfternoonEntries == { strftime_I_M_p(t) : t \in AfternoonTimes } \cup InvalidAfternoonEntries

-----------------------------------------------------------------------------
(* History view *)

\* date.strftime("%Y-%m-%d"): the text, as its three numbers
strftime_Y_m_d(date) == <<date.year, date.month, date.day>>

\* No file has been exported: no header line, no rows
NO_CSV == [header |-> <<>>, rows |-> <<>>]

\* [r for r in self.records if r["date"] == date_str]
records_of_date(recs, date) ==
    SelectSeq(recs, LAMBDA r : r.date = strftime_Y_m_d(date))

-----------------------------------------------------------------------------
(* DailyTimeRecordApp.__init__ *)

\* no picker has been used
PickerNotOpened ==
    /\ pk_called = FALSE
    /\ pk_time = 0
    /\ pk_time_obj = NoTime
    /\ pk_display = TimeText(12, 0, "AM")
    /\ pk_selected_time = NoTime
    /\ pk_entry = TimeText(0, 0, "AM")

\* the columns of the history tree
COLUMNS ==
    { "Date", "Morning Actual Time In", "Supposed Time In", "Late Minutes",
      "Afternoon Actual Time Out", "Supposed Time Out", "Undertime Minutes",
      "Deduction Points" }

\* no search has been carried out
NO_SEARCH == <<>>

\* the state after construction, whatever DATA_FILE held
InitAppLoaded ==
    /\ current_day = strftime_A(selected_date)
    /\ morning_check = TRUE
    /\ afternoon_check = TRUE
    /\ morning_actual_time_in = TimeText(0, 0, "AM")
    /\ afternoon_actual_time_out = TimeText(0, 0, "PM")
    /\ label_supposed_time_in = supposed_time_in_text(selected_date, TRUE)
    /\ label_supposed_time_out = supposed_time_out_text(selected_date, TRUE, TRUE)
    /\ label_morning_late = 0
    /\ label_morning_late_deduction = 0
    /\ label_afternoon_undertime = 0
    /\ label_afternoon_undertime_deduction = 0
    /\ label_deductions = 0
    /\ current_records = records_of_date(records, selected_date)
    /\ search_active = FALSE
    /\ data_file = records
    /\ csv_file = NO_CSV
    /\ search_from = selected_date
    /\ search_to = selected_date
    /\ sort_states = [col \in COLUMNS |-> FALSE]
    /\ last_search = NO_SEARCH
    /\ last_event = "__init__"

\* the state after construction without a DATA_FILE
InitApp ==
    /\ records = <<>>
    /\ InitAppLoaded

\* the application started on Monday 2024-02-26, the first of the visited dates (the
\* search combos keep the date of the start); the conversion has not been called
Init ==
    /\ selected_date = Date(2024, 2, 26)
    /\ InitApp
    /\ fr_hours = 0 /\ fr_minutes = 0 /\ fr_minutes2 = 0
    /\ fr_called = FALSE /\ fr_result = 0 /\ fr_result2 = 0
    /\ PickerNotOpened

-----------------------------------------------------------------------------
(* Checkboxes, entries, clear buttons *)

on_morning_check_toggle ==
    /\ morning_check' = ~morning_check
    /\ IF ~morning_check'
       THEN /\ morning_actual_time_in' = TimeText(0, 0, "AM")
            /\ label_supposed_time_in' = SENTINEL
            /\ UNCHANGED current_day
       ELSE /\ current_day' = strftime_A(selected_date)
            /\ label_supposed_time_in' = supposed_time_in_text(selected_date, morning_check')
            /\ UNCHANGED morning_actual_time_in
    /\ label_supposed_time_out' = supposed_time_out_text(selected_date, morning_check', afternoon_check)
    /\ last_event' = "on_morning_check_toggle"
    /\ UNCHANGED <<selected_date, afternoon_check, afternoon_actual_time_out,
                   label_morning_late, label_morning_late_deduction,
                   label_afternoon_undertime, label_afternoon_undertime_deduction,
                   label_deductions, history_vars, fr_vars>>

on_afternoon_check_toggle ==
    /\ afternoon_check' = ~afternoon_check
    /\ IF ~afternoon_check'
       THEN /\ afternoon_actual_time_out' = TimeText(0, 0, "PM")
            /\ label_supposed_time_out' = SENTINEL
       ELSE /\ label_supposed_time_out' = supposed_time_out_text(selected_date, morning_check, afternoon_check')
            /\ UNCHANGED afternoon_actual_time_out
    /\ last_event' = "on_afternoon_check_toggle"
    /\ UNCHANGED <<selected_date, current_day, morning_check, morning_actual_time_in,
                   label_supposed_time_in,
                   label_morning_late, label_morning_late_deduction,
                   label_afternoon_undertime, label_afternoon_undertime_deduction,
                   label_deductions, history_vars, fr_vars>>

\* on_ok without the branch for 12 AM
picker_on_ok_no_midnight(hour, minute, ampm) ==
    time(IF ampm = "PM" /\ hour # 12 THEN hour + 12 ELSE hour, minute)

\* TimePickerDialog.on_ok: the time of the picked hour (01..12), minute and AM/PM
picker_on_ok(hour, minute, ampm) ==
    time(IF ampm = "PM" /\ hour # 12 THEN hour + 12
         ELSE IF ampm = "AM" /\ hour = 12 THEN 0
         ELSE hour, minute)

\* what open_time_picker writes to the three StringVars for the selected time
picker_entry(selected_time) ==
    LET hour == selected_time \div 60
        hour_12 == IF hour % 12 = 0 THEN 12 ELSE hour % 12
    IN  TimeText(hour_12, selected_time % 60, IF hour >= 12 THEN "PM" ELSE "AM")

\* hour, minute and AM/PM that TimePickerDialog.__init__ shows for initial_time
picker_initial_display(initial_time) ==
    IF initial_time # NoTime
    THEN LET hour_24 == initial_time \div 60
             hour == IF hour_24 % 12 = 0 THEN 12 ELSE hour_24 % 12
         IN  TimeText(hour, initial_time % 60, IF hour_24 >= 12 THEN "PM" ELSE "AM")
    ELSE TimeText(12, 0, "AM")

\* time_obj of open_time_picker: the time the three StringVars hold, None where
\* time(hour_24, minute) raises ValueError
open_time_picker_time_obj(entry) ==
    LET hour_24 == IF entry.ampm = "PM" /\ entry.hh # 12 THEN entry.hh + 12
                   ELSE IF entry.ampm = "AM" /\ entry.hh = 12 THEN 0
                   ELSE entry.hh
    IN  IF hour_24 \in 0..23 /\ entry.mm \in 0..59 THEN time(hour_24, entry.mm) ELSE NoTime

\* the user picks (hour, minute, ampm) in the time picker of the morning entry and presses OK
open_time_picker_morning(hour, minute, ampm) ==
    /\ morning_check
    /\ morning_actual_time_in' = picker_entry(picker_on_ok(hour, minute, ampm))
    /\ last_event' = "open_time_picker"
    /\ UNCHANGED <<selected_date, current_day, morning_check, afternoon_check,
                   afternoon_actual_time_out, label_supposed_time_in, label_supposed_time_out,
                   label_morning_late, label_morning_late_deduction,
                   label_afternoon_undertime, label_afternoon_undertime_deduction,
                   label_deductions, history_vars, fr_vars>>

open_time_picker_afternoon(hour, minute, ampm) ==
    /\ afternoon_check
    /\ afternoon_actual_time_out' = picker_entry(picker_on_ok(hour, minute, ampm))
    /\ last_event' = "open_time_picker"
    /\ UNCHANGED <<selected_date, current_day, morning_check, afternoon_check,
                   morning_actual_time_in, label_supposed_time_in, label_supposed_time_out,
                   label_morning_late, label_morning_late_deduction,
                   label_afternoon_undertime, label_afternoon_undertime_deduction,
                   label_deductions, history_vars, fr_vars>>

\* the user types in the hour or minute entry, or selects AM/PM, of the morning entry
edit_morning_entry(entry) ==
    /\ morning_check
    /\ \E part \in {"hh", "mm", "ampm"} :
           entry = [morning_actual_time_in EXCEPT ![part] = entry[part]]
    /\ entry # morning_actual_time_in
    /\ morning_actual_time_in' = entry
    /\ last_event' = "edit_entry"
    /\ UNCHANGED <<selected_date, current_day, morning_check, afternoon_check,
                   afternoon_actual_time_out, label_supposed_time_in, label_supposed_time_out,
                   label_morning_late, label_morning_late_deduction,
                   label_afternoon_undertime, label_afternoon_undertime_deduction,
                   label_deductions, history_vars, fr_vars>>

edit_afternoon_entry(entry) ==
    /\ afternoon_check
    /\ \E part \in {"hh", "mm", "ampm"} :
           entry = [afternoon_actual_time_out EXCEPT ![part] = entry[part]]
    /\ entry # afternoon_actual_time_out
    /\ afternoon_actual_time_out' = entry
    /\ last_event' = "edit_entry"
    /\ UNCHANGED <<selected_date, current_day, morning_check, afternoon_check,
                   morning_actual_time_in, label_supposed_time_in, label_supposed_time_out,
                   label_morning_late, label_morning_late_deduction,
                   label_afternoon_undertime, label_afternoon_undertime_deduction,
                   label_deductions, history_vars, fr_vars>>

clear_morning ==
    /\ morning_check
    /\ morning_actual_time_in' = TimeText(0, 0, "AM")
    /\ label_morning_late' = 0
    /\ label_morning_late_deduction' = 0
    /\ label_supposed_time_out' = SENTINEL
    /\ label_afternoon_undertime' = 0
    /\ label_afternoon_undertime_deduction' = 0
    /\ label_deductions' = 0
    /\ last_event' = "clear_morning"
    /\ UNCHANGED <<selected_date, current_day, morning_check, afternoon_check,
                   afternoon_actual_time_out, label_supposed_time_in,
                   history_vars, fr_vars>>

clear_afternoon ==
    /\ afternoon_check
    /\ afternoon_actual_time_out' = TimeText(0, 0, "PM")
    /\ label_afternoon_undertime' = 0
    /\ label_afternoon_undertime_deduction' = 0
    /\ label_deductions' = 0
    /\ last_event' = "clear_afternoon"
    /\ UNCHANGED <<selected_date, current_day, morning_check, afternoon_check,
                   morning_actual_time_in, label_supposed_time_in, label_supposed_time_out,
                   label_morning_late, label_morning_late_deduction,
                   history_vars, fr_vars>>

-----------------------------------------------------------------------------
(* Date selection *)

\* a refresh that leaves current_day as it was
refresh_after_date_change_stale_day(date, searching) ==
    /\ current_day' = current_day
    /\ label_supposed_time_in' = supposed_time_in_text(date, morning_check)
    /\ label_supposed_time_out' = supposed_time_out_text(date, morning_check, afternoon_check)
    /\ label_morning_late' = 0
    /\ label_morning_late_deduction' = 0
    /\ label_afternoon_undertime' = 0
    /\ label_afternoon_undertime_deduction' = 0
    /\ label_deductions' = 0
    /\ current_records' = IF ~searching THEN records_of_date(records, date) ELSE current_records

\* the part of on_date_change after the date is set: the day, the two supposed
\* time labels, the result labels and the history view
refresh_after_date_change(date, searching) ==
    /\ current_day' = strftime_A(date)
    /\ label_supposed_time_in' = supposed_time_in_text(date, morning_check)
    /\ label_supposed_time_out' = supposed_time_out_text(date, morning_check, afternoon_check)
    /\ label_morning_late' = 0
    /\ label_morning_late_deduction' = 0
    /\ label_afternoon_undertime' = 0
    /\ label_afternoon_undertime_deduction' = 0
    /\ label_deductions' = 0
    /\ current_records' = IF ~searching THEN records_of_date(records, date) ELSE current_records

\* <<ComboboxSelected>> of the day combo, with year, month and day as the three combo
\* boxes show them at that moment (year_var, month_var, day_var); a date that does not
\* exist raises ValueError before anything is assigned
on_date_change(year, month, day) ==
    /\ IF ValidDate(year, month, day)
       THEN /\ Date(year, month, day) \in VisitDates
            /\ selected_date' = Date(year, month, day)
            /\ search_active' = FALSE
            /\ refresh_after_date_change(selected_date', search_active')
            /\ last_event' = "on_date_change"
            /\ UNCHANGED <<records, data_file, csv_file>>
       ELSE /\ last_event' = "on_date_change: Invalid date selected"
            /\ UNCHANGED <<form_vars, history_vars>>
    /\ UNCHANGED <<morning_check, afternoon_check, morning_actual_time_in,
                   afternoon_actual_time_out, fr_vars>>

\* <<ComboboxSelected>> of the day combo of the search range: selected_date stays
on_date_change_search_combo ==
    /\ refresh_after_date_change(selected_date, search_active)
    /\ last_event' = "on_date_change"
    /\ UNCHANGED <<selected_date, morning_check, afternoon_check, morning_actual_time_in,
                   afternoon_actual_time_out, records, search_active, data_file,
                   csv_file, fr_vars>>

set_selected_date(new_date) ==
    /\ new_date \in VisitDates
    /\ selected_date' = new_date
    /\ search_active' = FALSE
    /\ refresh_after_date_change(new_date, FALSE)
    /\ last_event' = "on_date_change"
    /\ UNCHANGED <<morning_check, afternoon_check, morning_actual_time_in,
                   afternoon_actual_time_out, records, data_file, csv_file, fr_vars>>

increment_day == set_selected_date(NextDay(selected_date))

decrement_day == set_selected_date(PrevDay(selected_date))

increment_month ==
    LET new_month == IF selected_date.month + 1 > 12 THEN 1 ELSE selected_date.month + 1
        new_year == IF selected_date.month + 1 > 12 THEN selected_date.year + 1 ELSE selected_date.year
        new_day == Min(selected_date.day, monthrange_days(new_year, new_month))
    IN  set_selected_date(Date(new_year, new_month, new_day))

decrement_month ==
    LET new_month == IF selected_date.month - 1 < 1 THEN 12 ELSE selected_date.month - 1
        new_year == IF selected_date.month - 1 < 1 THEN selected_date.year - 1 ELSE selected_date.year
        new_day == Min(selected_date.day, monthrange_days(new_year, new_month))
    IN  set_selected_date(Date(new_year, new_month, new_day))

increment_year ==
    LET new_year == selected_date.year + 1
        new_day == Min(selected_date.day, monthrange_days(new_year, selected_date.month))
    IN  set_selected_date(Date(new_year, selected_date.month, new_day))

decrement_year ==
    LET new_year == selected_date.year - 1
        new_day == Min(selected_date.day, monthrange_days(new_year, selected_date.month))
    IN  set_selected_date(Date(new_year, selected_date.month, new_day))

-----------------------------------------------------------------------------
(* Calculate Deductions *)

\* a calculation that adds the new total to the total already shown
calculate_deductions_accumulating ==
    LET morning_actual == parse_time_input(morning_actual_time_in)
        supposed_time_in == strptime_I_M_p(label_supposed_time_in)
        late_minutes == Max(0, calculate_time_difference(supposed_time_in, morning_actual))
        total_late_deduction ==
            IF morning_check
            THEN convert_time_diff_to_day_fraction(late_minutes \div 60, late_minutes % 60)
            ELSE 0
        day_name == current_day
        supposed_time_out ==
            resolved_supposed_time_out(morning_check, afternoon_check, morning_actual, day_name)
        afternoon_actual == parse_time_input(afternoon_actual_time_out)
        undertime_minutes ==
            IF supposed_time_out # NoTime
            THEN Max(0, calculate_time_difference(afternoon_actual, supposed_time_out))
            ELSE 0
        total_undertime_deduction ==
            IF afternoon_check
            THEN convert_time_diff_to_day_fraction(undertime_minutes \div 60, undertime_minutes % 60)
            ELSE 0
    IN
    /\ IF morning_check /\ morning_actual = NoTime
       THEN /\ last_event' = "calculate_deductions: Invalid Actual Time In"
            /\ UNCHANGED form_vars
       ELSE IF morning_check /\ supposed_time_in = NoTime
       THEN /\ last_event' = "calculate_deductions: Supposed Time In is not set"
            /\ UNCHANGED form_vars
       ELSE /\ label_morning_late' = IF morning_check THEN late_minutes ELSE 0
            /\ label_morning_late_deduction' = total_late_deduction
            /\ label_supposed_time_out' =
                   IF supposed_time_out # NoTime
                   THEN strftime_I_M_p(supposed_time_out) ELSE SENTINEL
            /\ IF afternoon_check /\ afternoon_actual = NoTime
               THEN /\ last_event' = "calculate_deductions: Invalid Actual Time Out"
                    /\ UNCHANGED <<label_afternoon_undertime,
                                   label_afternoon_undertime_deduction, label_deductions>>
               ELSE /\ label_afternoon_undertime' = IF afternoon_check THEN undertime_minutes ELSE 0
                    /\ label_afternoon_undertime_deduction' = total_undertime_deduction
                    /\ label_deductions' =
                           Round3(label_deductions + total_late_deduction + total_undertime_deduction
                                  + half_day_deduction(morning_check, afternoon_check))
                    /\ last_event' = "calculate_deductions"
            /\ UNCHANGED <<selected_date, current_day, morning_check, afternoon_check,
                           morning_actual_time_in, afternoon_actual_time_out,
                           label_supposed_time_in>>
    /\ UNCHANGED <<history_vars, fr_vars>>

calculate_deductions ==
    LET morning_actual == parse_time_input(morning_actual_time_in)
        supposed_time_in == strptime_I_M_p(label_supposed_time_in)
        late_minutes == Max(0, calculate_time_difference(supposed_time_in, morning_actual))
        total_late_deduction ==
            IF morning_check
            THEN convert_time_diff_to_day_fraction(late_minutes \div 60, late_minutes % 60)
            ELSE 0
        day_name == current_day
        supposed_time_out ==
            resolved_supposed_time_out(morning_check, afternoon_check, morning_actual, day_name)
        afternoon_actual == parse_time_input(afternoon_actual_time_out)
        undertime_minutes ==
            IF supposed_time_out # NoTime
            THEN Max(0, calculate_time_difference(afternoon_actual, supposed_time_out))
            ELSE 0
        total_undertime_deduction ==
            IF afternoon_check
            THEN convert_time_diff_to_day_fraction(undertime_minutes \div 60, undertime_minutes % 60)
            ELSE 0
    IN
    /\ IF morning_check /\ morning_actual = NoTime
       THEN /\ last_event' = "calculate_deductions: Invalid Actual Time In"
            /\ UNCHANGED form_vars
       ELSE IF morning_check /\ supposed_time_in = NoTime
       THEN /\ last_event' = "calculate_deductions: Supposed Time In is not set"
            /\ UNCHANGED form_vars
       ELSE /\ label_morning_late' = IF morning_check THEN late_minutes ELSE 0
            /\ label_morning_late_deduction' = total_late_deduction
            /\ label_supposed_time_out' =
                   IF supposed_time_out # NoTime
                   THEN strftime_I_M_p(supposed_time_out) ELSE SENTINEL
            /\ IF afternoon_check /\ afternoon_actual = NoTime
               THEN /\ last_event' = "calculate_deductions: Invalid Actual Time Out"
                    /\ UNCHANGED <<label_afternoon_undertime,
                                   label_afternoon_undertime_deduction, label_deductions>>
               ELSE /\ label_afternoon_undertime' = IF afternoon_check THEN undertime_minutes ELSE 0
                    /\ label_afternoon_undertime_deduction' = total_undertime_deduction
                    /\ label_deductions' =
                           Round3(total_late_deduction + total_undertime_deduction
                                  + half_day_deduction(morning_check, afternoon_check))
                    /\ last_event' = "calculate_deductions"
            /\ UNCHANGED <<selected_date, current_day, morning_check, afternoon_check,
                           morning_actual_time_in, afternoon_actual_time_out,
                           label_supposed_time_in>>
    /\ UNCHANGED <<history_vars, fr_vars>>

-----------------------------------------------------------------------------
(* The application: every handler of the form *)

Next ==
    \/ increment_year
    \/ decrement_year
    \/ increment_month
    \/ decrement_month
    \/ increment_day
    \/ decrement_day
    \/ \E year \in ComboYears, month \in ComboMonths, day \in ComboDays :
           on_date_change(year, month, day)
    \/ on_date_change_search_combo
    \/ on_morning_check_toggle
    \/ on_afternoon_check_toggle
    \/ \E entry \in MorningEntries : edit_morning_entry(entry)
    \/ \E entry \in AfternoonEntries : edit_afternoon_entry(entry)
    \/ \E t \in MorningTimes :
           open_time_picker_morning(picker_entry(t).hh, picker_entry(t).mm, picker_entry(t).ampm)
    \/ \E t \in AfternoonTimes :
           open_time_picker_afternoon(picker_entry(t).hh, picker_entry(t).mm, picker_entry(t).ampm)
    \/ clear_morning
    \/ clear_afternoon
    \/ calculate_deductions

Spec == Init /\ [][Next]_vars

-----------------------------------------------------------------------------
(* convert_time_diff_to_day_fraction on its own: the arguments are drawn from *)
(* the bounded ranges, the one action calls the function                      *)

InitFraction ==
    /\ selected_date = Date(2024, 2, 26)
    /\ InitApp
    /\ fr_hours \in -2..MaxHoursArg
    /\ fr_minutes \in -2..MaxMinutesArg
    /\ fr_minutes2 \in -2..MaxMinutesArg
    /\ fr_called = FALSE /\ fr_result = 0 /\ fr_result2 = 0
    /\ PickerNotOpened

call_convert_time_diff_to_day_fraction ==
    /\ ~fr_called
    /\ fr_called' = TRUE
    /\ fr_result' = convert_time_diff_to_day_fraction(fr_hours, fr_minutes)
    /\ fr_result2' = convert_time_diff_to_day_fraction(fr_hours, fr_minutes2)
    /\ UNCHANGED <<fr_hours, fr_minutes, fr_minutes2, pk_vars, view_vars, form_vars, history_vars,
                   last_event>>

NextFraction == call_convert_time_diff_to_day_fraction

SpecFraction == InitFraction /\ [][NextFraction]_vars

-----------------------------------------------------------------------------
(* convert_time_diff_to_day_fraction as calculate_deductions calls it: the   *)
(* arguments are late_minutes // 60 and late_minutes % 60 (the same for      *)
(* undertime_minutes) of a number of minutes drawn from 0..MaxLateMinutes    *)

InitLate ==
    /\ selected_date = Date(2024, 2, 26)
    /\ InitApp
    /\ \E late_minutes \in 0..MaxLateMinutes :
           /\ fr_hours = late_minutes \div 60
           /\ fr_minutes = late_minutes % 60
           /\ fr_minutes2 = late_minutes % 60
    /\ fr_called = FALSE /\ fr_result = 0 /\ fr_result2 = 0
    /\ PickerNotOpened

NextLate == call_convert_time_diff_to_day_fraction

SpecLate == InitLate /\ [][NextLate]_vars

-----------------------------------------------------------------------------
(* The time picker on its own: an entry holding a time drawn from            *)
(* 0..MaxPickerTime is opened in the picker and OK is pressed on what the     *)
(* dialog shows                                                              *)

InitPicker ==
    /\ selected_date = Date(2024, 2, 26)
    /\ InitApp
    /\ fr_hours = 0 /\ fr_minutes = 0 /\ fr_minutes2 = 0
    /\ fr_called = FALSE /\ fr_result = 0 /\ fr_result2 = 0
    /\ pk_called = FALSE
    /\ pk_time \in 0..MaxPickerTime
    /\ pk_time_obj = NoTime
    /\ pk_display = TimeText(12, 0, "AM")
    /\ pk_selected_time = NoTime
    /\ pk_entry = picker_entry(pk_time)

\* open_time_picker on the entry, TimePickerDialog.__init__ with the time read
\* from it, on_ok on the values shown, and the entry written back
open_time_picker_ok ==
    /\ ~pk_called
    /\ pk_called' = TRUE
    /\ LET time_obj == open_time_picker_time_obj(pk_entry)
           display == picker_initial_display(time_obj)
           selected_time == picker_on_ok(display.hh, display.mm, display.ampm)
       IN  /\ pk_time_obj' = time_obj
           /\ pk_display' = display
           /\ pk_selected_time' = selected_time
           /\ pk_entry' = picker_entry(selected_time)
    /\ UNCHANGED <<pk_time, fr_hours, fr_minutes, fr_minutes2, fr_called, fr_result, fr_result2,
                   view_vars, form_vars, history_vars, last_event>>

NextPicker == open_time_picker_ok

SpecPicker == InitPicker /\ [][NextPicker]_vars

-----------------------------------------------------------------------------
(* Save Record *)

\* the dict that save_record and the history functions work on
Record(date, morning_in, supposed_in, late, afternoon_out, supposed_out, undertime, points) ==
    [ date                      |-> date,
      morning_actual_time_in    |-> morning_in,
      supposed_time_in          |-> supposed_in,
      late_minutes              |-> late,
      afternoon_actual_time_out |-> afternoon_out,
      supposed_time_out         |-> supposed_out,
      undertime_minutes         |-> undertime,
      deduction_points          |-> points ]

\* new_record of save_record: the date, the two entries (or the sentinel for an
\* unchecked half) and whatever the labels show at that moment
new_record ==
    Record(strftime_Y_m_d(selected_date),
           IF morning_check THEN morning_actual_time_in ELSE SENTINEL,
           label_supposed_time_in,
           IF morning_check THEN label_morning_late ELSE 0,
           IF afternoon_check THEN afternoon_actual_time_out ELSE SENTINEL,
           label_supposed_time_out,
           IF afternoon_check THEN label_afternoon_undertime ELSE 0,
           label_deductions)

\* a list that takes the new element at its end
list_insert_at_end(list, x) == Append(list, x)

\* list.insert(0, x)
list_insert_0(list, x) == <<x>> \o list

\* an answer that is taken as yes whatever the user clicks
askyesno_ignored(answer) == TRUE

\* messagebox.askyesno: the user's answer
askyesno(answer) == answer

\* Save Record; add_record is the user's answer to "Do you want to add another
\* record for this date?", asked only if the date has a record
save_record(add_record) ==
    LET existing_records == records_of_date(records, selected_date)
    IN  IF existing_records # <<>> /\ ~askyesno(add_record)
        THEN /\ last_event' = "save_record: declined"
             /\ UNCHANGED <<form_vars, history_vars, fr_vars>>
        ELSE /\ records' = list_insert_0(records, new_record)
             /\ data_file' = records'
             /\ current_records' = records_of_date(records', selected_date)
             /\ last_event' = "save_record"
             /\ UNCHANGED <<form_vars, search_active, csv_file, fr_vars>>

-----------------------------------------------------------------------------
(* Export to CSV *)

CSV_HEADER ==
    << "Date", "Morning Actual Time In", "Supposed Time In", "Late Minutes",
       "Afternoon Actual Time Out", "Supposed Time Out", "Undertime Minutes",
       "Deduction Points" >>

\* the order of two "%Y-%m-%d" texts, as Python compares the strings
date_str_less(a, b) ==
    \/ a[1] < b[1]
    \/ a[1] = b[1] /\ a[2] < b[2]
    \/ a[1] = b[1] /\ a[2] = b[2] /\ a[3] < b[3]

\* sorted(list, key=lambda x: x["date"]): ascending, equal dates keep their order
RECURSIVE sorted_by_date(_)
sorted_by_date(list) ==
    IF list = <<>> THEN <<>>
    ELSE LET x == Head(list)
             rest == sorted_by_date(Tail(list))
             before == SelectSeq(rest, LAMBDA r : date_str_less(r.date, x.date))
             after == SelectSeq(rest, LAMBDA r : ~date_str_less(r.date, x.date))
         IN  before \o <<x>> \o after

\* sorted(list, key=lambda x: x["date"], reverse=True): descending, equal dates
\* keep their order
RECURSIVE sorted_by_date_reverse(_)
sorted_by_date_reverse(list) ==
    IF list = <<>> THEN <<>>
    ELSE LET x == Head(list)
             rest == sorted_by_date_reverse(Tail(list))
             before == SelectSeq(rest, LAMBDA r : date_str_less(x.date, r.date))
             after == SelectSeq(rest, LAMBDA r : ~date_str_less(x.date, r.date))
         IN  before \o <<x>> \o after

\* the row that writer.writerow gets for a record
csv_row(record) ==
    << record.date, record.morning_actual_time_in, record.supposed_time_in,
       record.late_minutes, record.afternoon_actual_time_out, record.supposed_time_out,
       record.undertime_minutes, record.deduction_points >>

\* Export to CSV; file_chosen is FALSE when the user cancels the file dialog
export_history(file_chosen) ==
    /\ IF records = <<>>
       THEN /\ last_event' = "export_history: No Data"
            /\ UNCHANGED csv_file
       ELSE IF ~file_chosen
       THEN /\ last_event' = "export_history: cancelled"
            /\ UNCHANGED csv_file
       ELSE /\ csv_file' =
                   [ header |-> CSV_HEADER,
                     rows   |-> LET ordered == sorted_by_date_reverse(records)
                                IN  [i \in 1..Len(ordered) |-> csv_row(ordered[i])] ]
            /\ last_event' = "export_history"
    /\ UNCHANGED <<form_vars, records, current_records, search_active, data_file, fr_vars>>

-----------------------------------------------------------------------------
(* Edit Record *)

\* the empty text
EMPTY == [text |-> ""]

\* str_to_time: the time, or None where strptime raises
str_to_time(time_str) == strptime_I_M_p(time_str)

\* datetime.strptime(date_str, "%Y-%m-%d").date()
strptime_Y_m_d(date_str) == Date(date_str[1], date_str[2], date_str[3])

\* the late minutes without the lower bound 0
recalc_late_minutes_signed(st, morning_time) == calculate_time_difference(st, morning_time)

\* late_minutes of recalc_single_record for a morning time and a supposed time in
recalc_late_minutes(st, morning_time) == Max(0, calculate_time_difference(st, morning_time))

\* the flexi branch of recalc_single_record: the supposed time out
\* the flexi clamp without the Monday branch
recalc_flexi_supposed_time_out_no_monday(morning_time, day_name) ==
    LET in_minutes == IF morning_time < 450 THEN 450
                      ELSE IF morning_time > 510 THEN 510 ELSE morning_time
        out_minutes == in_minutes + 540
        clamped == IF out_minutes < 990 THEN 990
                   ELSE IF out_minutes > 1050 THEN 1050 ELSE out_minutes
    IN  time(clamped \div 60, clamped % 60)

recalc_flexi_supposed_time_out(morning_time, day_name) ==
    LET in_minutes == IF morning_time < 450 THEN 450
                      ELSE IF morning_time > 510 THEN 510 ELSE morning_time
        out_minutes == in_minutes + 540
        clamped == IF day_name = "Monday"
                   THEN (IF out_minutes < 990 THEN 990
                         ELSE IF out_minutes > 1020 THEN 1020 ELSE out_minutes)
                   ELSE (IF out_minutes < 990 THEN 990
                         ELSE IF out_minutes > 1050 THEN 1050 ELSE out_minutes)
    IN  time(clamped \div 60, clamped % 60)

\* recalc_single_record: the record as the method leaves it
recalc_single_record(record) ==
    LET day_name == strftime_A(strptime_Y_m_d(record.date))
        morning_in_str == record.morning_actual_time_in
        morning_given == morning_in_str # EMPTY /\ morning_in_str # SENTINEL
        st == supposed_time_in_of(day_name)
        morning_time == str_to_time(morning_in_str)
        morning_in_kept == IF morning_given THEN morning_in_str ELSE SENTINEL
        supposed_time_in ==
            IF morning_given /\ st # NoTime THEN strftime_I_M_p(st) ELSE SENTINEL
        late_minutes ==
            IF morning_given /\ morning_time # NoTime /\ st # NoTime
            THEN recalc_late_minutes(st, morning_time) ELSE 0
        after_str == record.afternoon_actual_time_out
        afternoon_time ==
            IF after_str # EMPTY /\ after_str # SENTINEL THEN str_to_time(after_str) ELSE NoTime
        supposed_time_out ==
            IF morning_in_kept # SENTINEL /\ afternoon_time # NoTime
            THEN (IF str_to_time(morning_in_kept) # NoTime
                  THEN strftime_I_M_p(recalc_flexi_supposed_time_out(str_to_time(morning_in_kept),
                                                                    day_name))
                  ELSE SENTINEL)
            ELSE IF morning_in_kept = SENTINEL /\ afternoon_time # NoTime
            THEN (IF day_name = "Monday"
                  THEN strftime_I_M_p(time(17, 0)) ELSE strftime_I_M_p(time(17, 30)))
            ELSE SENTINEL
        undertime_minutes ==
            IF afternoon_time # NoTime /\ supposed_time_out # SENTINEL
            THEN Max(0, calculate_time_difference(afternoon_time, str_to_time(supposed_time_out)))
            ELSE 0
        half_days == (IF morning_in_kept = SENTINEL THEN 1 ELSE 0)
                     + (IF after_str = SENTINEL THEN 1 ELSE 0)
        late_ded == convert_time_diff_to_day_fraction(late_minutes \div 60, late_minutes % 60)
        undertime_ded ==
            convert_time_diff_to_day_fraction(undertime_minutes \div 60, undertime_minutes % 60)
    IN  Record(record.date, morning_in_kept, supposed_time_in, late_minutes,
               after_str, supposed_time_out, undertime_minutes,
               Round3(late_ded + undertime_ded + half_days * 500))

\* the index of the first record with the date and the two times of a history row,
\* 0 if there is none
record_index_of(values) ==
    LET matches == { i \in 1..Len(records) :
                        /\ records[i].date = values.date
                        /\ records[i].morning_actual_time_in = values.morning_actual_time_in
                        /\ records[i].afternoon_actual_time_out = values.afternoon_actual_time_out }
    IN  IF matches = {} THEN 0 ELSE CHOOSE i \in matches : \A j \in matches : i <= j

\* Edit on the selected row of the history (row item of the displayed records), the
\* two texts typed into the modal EditRecordDialog, its Save button, and the
\* save_edited_record callback
edit_record(item, morning_text, afternoon_text) ==
    /\ item \in 1..Len(current_records)
    /\ LET record_index == record_index_of(current_records[item])
       IN  IF record_index = 0
           THEN /\ last_event' = "edit_record: Selected record not found"
                /\ UNCHANGED <<records, current_records, data_file>>
           ELSE /\ records' =
                       [records EXCEPT ![record_index] =
                           recalc_single_record(
                               [@ EXCEPT !.morning_actual_time_in = morning_text,
                                         !.afternoon_actual_time_out = afternoon_text])]
                /\ data_file' = records'
                /\ current_records' = IF search_active THEN records'
                                      ELSE records_of_date(records', selected_date)
                /\ last_event' = "edit_record"
    /\ UNCHANGED <<form_vars, search_active, csv_file, fr_vars>>

-----------------------------------------------------------------------------
(* Search, Reset, column sort, Delete *)

\* from_date > to_date of two dates
date_after(a, b) == date_str_less(strftime_Y_m_d(b), strftime_Y_m_d(a))

\* [record for record in recs if from_date <= date of record <= to_date]
records_in_range(recs, from_date, to_date) ==
    SelectSeq(recs, LAMBDA r : /\ ~date_after(from_date, strptime_Y_m_d(r.date))
                               /\ ~date_after(strptime_Y_m_d(r.date), to_date))

\* the body of search_history on the records recs, with the dates the six combo
\* boxes of the search show: a date that does not exist and a From date after the
\* To date are reported and nothing is changed
search_history_of(recs) ==
    IF /\ ValidDate(search_from.year, search_from.month, search_from.day)
       /\ ValidDate(search_to.year, search_to.month, search_to.day)
       /\ ~date_after(search_from, search_to)
    THEN /\ current_records' = records_in_range(recs, search_from, search_to)
         /\ search_active' = TRUE
         /\ last_search' = <<search_from, search_to>>
    ELSE UNCHANGED <<current_records, search_active, last_search>>

\* the Search button
search_history ==
    /\ search_history_of(records)
    /\ last_event' =
           (IF ~ValidDate(search_from.year, search_from.month, search_from.day)
               \/ ~ValidDate(search_to.year, search_to.month, search_to.day)
            THEN "search_history: Invalid Input"
            ELSE IF date_after(search_from, search_to)
            THEN "search_history: Invalid Range"
            ELSE "search_history")
    /\ UNCHANGED <<form_vars, records, data_file, csv_file, search_from, search_to,
                   sort_states, call_vars>>

\* a reset that leaves the search on
reset_history_keeps_search ==
    /\ search_active' = search_active
    /\ current_records' = records_of_date(records, selected_date)
    /\ last_event' = "reset_history"
    /\ UNCHANGED <<form_vars, records, data_file, csv_file, view_vars, call_vars>>

\* the Reset button
reset_history ==
    /\ search_active' = FALSE
    /\ current_records' = records_of_date(records, selected_date)
    /\ last_event' = "reset_history"
    /\ UNCHANGED <<form_vars, records, data_file, csv_file, view_vars, call_vars>>

\* <<ComboboxSelected>> of the From day or the To day combo of the search with the
\* day picked: on_date_change with a widget that is none of the main combos
on_date_change_search_day(combo, day) ==
    /\ IF combo = "search_from_day"
       THEN /\ search_from' = [search_from EXCEPT !.day = day]
            /\ UNCHANGED search_to
       ELSE /\ search_to' = [search_to EXCEPT !.day = day]
            /\ UNCHANGED search_from
    /\ refresh_after_date_change(selected_date, search_active)
    /\ last_event' = "on_date_change"
    /\ UNCHANGED <<selected_date, morning_check, afternoon_check, morning_actual_time_in,
                   afternoon_actual_time_out, records, search_active, data_file,
                   csv_file, sort_states, last_search, call_vars>>

\* key_func of sort_by_column for the date column and the three number columns,
\* as a number with the same order
sort_key(col, x) ==
    IF col = "Late Minutes" THEN x.late_minutes
    ELSE IF col = "Undertime Minutes" THEN x.undertime_minutes
    ELSE IF col = "Deduction Points" THEN x.deduction_points
    ELSE (x.date[1] * 12 + x.date[2]) * 31 + x.date[3]

\* list.sort(key=key_func, reverse=reverse): stable in both directions
RECURSIVE list_sort(_, _, _)
list_sort(list, col, reverse) ==
    IF list = <<>> THEN <<>>
    ELSE LET x == Head(list)
             rest == list_sort(Tail(list), col, reverse)
             before == SelectSeq(rest, LAMBDA r :
                           IF reverse THEN sort_key(col, r) > sort_key(col, x)
                           ELSE sort_key(col, r) < sort_key(col, x))
             after == SelectSeq(rest, LAMBDA r :
                           IF reverse THEN sort_key(col, r) <= sort_key(col, x)
                           ELSE sort_key(col, r) >= sort_key(col, x))
         IN  before \o <<x>> \o after

\* a sort that sorts the stored records as well
sort_by_column_stored(col) ==
    /\ sort_states' = [sort_states EXCEPT ![col] = ~sort_states[col]]
    /\ current_records' = list_sort(current_records, col, sort_states'[col])
    /\ records' = list_sort(records, col, sort_states'[col])
    /\ last_event' = "sort_by_column"
    /\ UNCHANGED <<form_vars, search_active, data_file, csv_file,
                   search_from, search_to, last_search, call_vars>>

\* a click on the heading col of the history tree
sort_by_column(col) ==
    /\ sort_states' = [sort_states EXCEPT ![col] = ~sort_states[col]]
    /\ current_records' = list_sort(current_records, col, sort_states'[col])
    /\ last_event' = "sort_by_column"
    /\ UNCHANGED <<form_vars, records, search_active, data_file, csv_file,
                   search_from, search_to, last_search, call_vars>>

\* list.pop(idx) with idx counted from 1
list_pop(list, idx) == SubSeq(list, 1, idx - 1) \o SubSeq(list, idx + 1, Len(list))

\* for idx in sorted(to_delete, reverse=True): list.pop(idx), where to_delete holds
\* idx_to_remove[item] for every item of items; pop raises IndexError for an index
\* past the end of the list, and the loop ends there with what it has popped
RECURSIVE pop_sorted_reverse(_, _, _)
pop_sorted_reverse(list, items, idx_to_remove) ==
    IF items = {} THEN [list |-> list, raised |-> FALSE]
    ELSE LET item == CHOOSE i \in items : \A j \in items : idx_to_remove[j] <= idx_to_remove[i]
         IN  IF idx_to_remove[item] > Len(list)
             THEN [list |-> list, raised |-> TRUE]
             ELSE pop_sorted_reverse(list_pop(list, idx_to_remove[item]), items \ {item},
                                     idx_to_remove)

\* Delete with the rows selected_items of the history selected; confirm is the
\* user's answer to "Are you sure you want to delete the selected record(s)?"; an
\* IndexError leaves the handler before the file is written and the view refreshed
delete_record(selected_items, confirm) ==
    /\ selected_items \subseteq 1..Len(current_records)
    /\ IF selected_items = {}
       THEN /\ last_event' = "delete_record: No Selection"
            /\ UNCHANGED <<history_vars, last_search>>
       ELSE IF ~askyesno(confirm)
       THEN /\ last_event' = "delete_record: cancelled"
            /\ UNCHANGED <<history_vars, last_search>>
       ELSE LET idx_to_remove ==
                    [item \in selected_items |-> record_index_of(current_records[item])]
                found == { item \in selected_items : idx_to_remove[item] # 0 }
                popped == pop_sorted_reverse(records, found, idx_to_remove)
            IN  /\ records' = popped.list
                /\ IF popped.raised
                   THEN /\ last_event' = "delete_record: IndexError"
                        /\ UNCHANGED <<data_file, current_records, search_active, last_search>>
                   ELSE /\ data_file' = records'
                        /\ IF search_active
                           THEN search_history_of(records')
                           ELSE /\ current_records' = records_of_date(records', selected_date)
                                /\ UNCHANGED <<search_active, last_search>>
                        /\ last_event' = "delete_record"
                /\ UNCHANGED csv_file
    /\ UNCHANGED <<form_vars, search_from, search_to, sort_states, call_vars>>

-----------------------------------------------------------------------------
(* The form with Save Record: the user changes the date, the boxes and the times, *)
(* calculates or not, and saves what the form shows; the Actual Time Out stays as *)
(* it is at the start                                                             *)

\* a Friday and a Saturday
SaveDates == { Date(2024, 3, 1), Date(2024, 3, 2) }

SaveMorningTimes == { time(8, 45) }

InitSave ==
    /\ selected_date \in SaveDates
    /\ InitApp
    /\ fr_hours = 0 /\ fr_minutes = 0 /\ fr_minutes2 = 0
    /\ fr_called = FALSE /\ fr_result = 0 /\ fr_result2 = 0
    /\ PickerNotOpened

NextSave ==
    \/ increment_day /\ selected_date' \in SaveDates
    \/ decrement_day /\ selected_date' \in SaveDates
    \/ on_morning_check_toggle
    \/ on_afternoon_check_toggle
    \/ \E t \in SaveMorningTimes :
           open_time_picker_morning(picker_entry(t).hh, picker_entry(t).mm, picker_entry(t).ampm)
    \/ clear_morning
    \/ clear_afternoon
    \/ calculate_deductions
    \/ Len(records) < MaxSavedRecords /\ \E add_record \in BOOLEAN : save_record(add_record)

SpecSave == InitSave /\ [][NextSave]_vars

-----------------------------------------------------------------------------
(* The history: the user saves a day right after calculating it, and exports; *)
(* the Actual Time Out stays as it is at the start, so a calculation succeeds  *)
(* with the afternoon unchecked                                               *)

\* a Monday and a Tuesday
HistoryDates == { Date(2024, 2, 26), Date(2024, 2, 27) }

HistoryMorningTimes == { time(8, 45) }

InitHistory ==
    /\ selected_date \in HistoryDates
    /\ InitApp
    /\ fr_hours = 0 /\ fr_minutes = 0 /\ fr_minutes2 = 0
    /\ fr_called = FALSE /\ fr_result = 0 /\ fr_result2 = 0
    /\ PickerNotOpened

NextHistory ==
    \/ increment_day /\ selected_date' \in HistoryDates
    \/ decrement_day /\ selected_date' \in HistoryDates
    \/ on_morning_check_toggle
    \/ on_afternoon_check_toggle
    \/ \E t \in HistoryMorningTimes :
           open_time_picker_morning(picker_entry(t).hh, picker_entry(t).mm, picker_entry(t).ampm)
    \/ calculate_deductions
    \/ /\ last_event = "calculate_deductions"
       /\ Len(records) < MaxHistoryRecords
       /\ \E add_record \in BOOLEAN : save_record(add_record)
    \/ \E file_chosen \in BOOLEAN : export_history(file_chosen)

SpecHistory == InitHistory /\ [][NextHistory]_vars

-----------------------------------------------------------------------------
(* Editing: the user saves a day right after calculating it, and edits records *)

\* an early arrival
\* a text typed into an entry of the edit dialog that "%I:%M %p" does not parse
UNPARSABLE == [text |-> "8am"]

EditMorningTimes == { time(7, 0) }

\* a late departure
EditAfternoonTimes == { time(18, 0) }

\* texts typed into the dialog as Morning Actual Time In
EditMorningTexts == { SENTINEL, TimeText(7, 0, "AM"), TimeText(9, 15, "AM"), UNPARSABLE }

\* texts typed into the dialog as Afternoon Actual Time Out
EditAfternoonTexts == { SENTINEL, TimeText(4, 0, "PM"), TimeText(6, 0, "PM") }

NextEdit ==
    \/ increment_day /\ selected_date' \in HistoryDates
    \/ decrement_day /\ selected_date' \in HistoryDates
    \/ on_morning_check_toggle
    \/ on_afternoon_check_toggle
    \/ \E t \in EditMorningTimes :
           open_time_picker_morning(picker_entry(t).hh, picker_entry(t).mm, picker_entry(t).ampm)
    \/ \E t \in EditAfternoonTimes :
           open_time_picker_afternoon(picker_entry(t).hh, picker_entry(t).mm, picker_entry(t).ampm)
    \/ calculate_deductions
    \/ /\ last_event = "calculate_deductions"
       /\ Len(records) < MaxEditRecords
       /\ \E add_record \in BOOLEAN : save_record(add_record)
    \/ \E item \in 1..MaxEditRecords, morning_text \in EditMorningTexts,
          afternoon_text \in EditAfternoonTexts :
           edit_record(item, morning_text, afternoon_text)

SpecEdit == InitHistory /\ [][NextEdit]_vars

-----------------------------------------------------------------------------
(* The history view: records are saved from the form with Morning checked or *)
(* not, on the two dates of HistoryDates, and searched, sorted, reset and     *)
(* deleted                                                                   *)

\* the combo boxes of the search that the user changes, and the days picked in them
SearchCombos == { "search_to_day" }

SearchDays == { 26, 27 }

\* the days picked in the day combo of the main date (February 30 does not exist)
ViewComboDays == { 27, 30 }

\* the two texts typed into the edit dialog
ViewEditMorningText == TimeText(9, 15, "AM")

ViewEditAfternoonText == SENTINEL

\* the headings clicked
SortColumns == { "Date" }

NextView ==
    \/ increment_day /\ selected_date' \in HistoryDates
    \/ decrement_day /\ selected_date' \in HistoryDates
    \/ \E day \in ViewComboDays : on_date_change(selected_date.year, selected_date.month, day)
    \/ \E combo \in SearchCombos, day \in SearchDays :
           on_date_change_search_day(combo, day)
    \/ on_morning_check_toggle
    \/ calculate_deductions
    \/ /\ Len(records) < MaxViewRecords
       /\ \E add_record \in BOOLEAN : save_record(add_record)
    \/ search_history
    \/ reset_history
    \/ \E col \in SortColumns : sort_by_column(col)
    \/ \E item \in 1..MaxViewRecords :
           edit_record(item, ViewEditMorningText, ViewEditAfternoonText)
    \/ \E selected_items \in SUBSET (1..Len(current_records)), confirm \in BOOLEAN :
           delete_record(selected_items, confirm)

SpecView == InitHistory /\ [][NextView]_vars

-----------------------------------------------------------------------------
(* Delete: the application starts with a DATA_FILE of up to MaxDeleteRecords   *)
(* records of days with both halves absent, saved after a calculation         *)

\* the record save_record stores for date after a calculation with both boxes unchecked
absent_day_record(date) ==
    Record(strftime_Y_m_d(date), SENTINEL, SENTINEL, 0, SENTINEL, SENTINEL, 0,
           half_day_deduction(FALSE, FALSE))

StoredRecords == { absent_day_record(date) : date \in HistoryDates }

InitDelete ==
    /\ selected_date \in HistoryDates
    /\ records \in UNION { [1..n -> StoredRecords] : n \in 0..MaxDeleteRecords }
    /\ InitAppLoaded
    /\ fr_hours = 0 /\ fr_minutes = 0 /\ fr_minutes2 = 0
    /\ fr_called = FALSE /\ fr_result = 0 /\ fr_result2 = 0
    /\ PickerNotOpened

NextDelete ==
    \/ increment_day /\ selected_date' \in HistoryDates
    \/ decrement_day /\ selected_date' \in HistoryDates
    \/ \E combo \in SearchCombos, day \in SearchDays :
           on_date_change_search_day(combo, day)
    \/ search_history
    \/ reset_history
    \/ \E selected_items \in SUBSET (1..Len(current_records)), confirm \in BOOLEAN :
           delete_record(selected_items, confirm)

SpecDelete == InitDelete /\ [][NextDelete]_vars

-----------------------------------------------------------------------------
(* Properties of convert_time_diff_to_day_fraction, under SpecFraction *)

\* C1: for minutes m in 0..60, fraction(0, m) is the table entry MINUTES_TO_DAY[m],
\* and m1 <= m2 implies fraction(0, m1) <= fraction(0, m2)
C1_MinutesFollowTableMonotone ==
    (fr_called /\ fr_hours = 0) =>
        /\ fr_minutes \in 0..60 => fr_result = MINUTES_TO_DAY[fr_minutes]
        /\ (fr_minutes \in 0..60 /\ fr_minutes2 \in 0..60 /\ fr_minutes <= fr_minutes2)
               => fr_result <= fr_result2

C1_Witness ==
    /\ fr_called /\ fr_hours = 0
    /\ fr_minutes = 18 /\ fr_minutes2 = 19
    /\ fr_result = 37 /\ fr_result2 = 40

\* C2 as stated: fraction(0, 30) = 0.056 and fraction(0, 31) = 0.065
C2_Original ==
    (fr_called /\ fr_hours = 0) =>
        /\ fr_minutes = 30 => fr_result = 56
        /\ fr_minutes = 31 => fr_result = 65

\* C2 amended: fraction(0, 30) = 0.062 and fraction(0, 31) = 0.065
C2_Minute30Is62 ==
    (fr_called /\ fr_hours = 0) =>
        /\ fr_minutes = 30 => fr_result = 62
        /\ fr_minutes = 31 => fr_result = 65

C2_Witness ==
    /\ fr_called /\ fr_hours = 0
    /\ fr_minutes = 30 /\ fr_result = 62
    /\ fr_minutes2 = 31 /\ fr_result2 = 65

\* C3: for hours h in 0..8, h = 0 included, fraction(h, 0) = h * 0.125; 8 hours give 1.000
C3_HoursLinear ==
    (fr_called /\ fr_minutes = 0 /\ fr_hours \in 0..8) =>
        /\ fr_result = fr_hours * 125
        /\ fr_hours = 8 => fr_result = 1000

C3_Witness ==
    /\ fr_called /\ fr_minutes = 0
    /\ fr_hours = 8 /\ fr_result = 1000

\* C4: fraction(h, m) = fraction(max(0, min(h, 8)), max(0, min(m, 60))) for all integers
\* h and m, so h > 8 gives the result of h = 8 and m > 60 the result of m = 60, and
\* every call returns a value
C4_ArgumentsClamped ==
    fr_called =>
        LET h == IF fr_hours < 0 THEN 0 ELSE IF fr_hours > 8 THEN 8 ELSE fr_hours
            m == IF fr_minutes < 0 THEN 0 ELSE IF fr_minutes > 60 THEN 60 ELSE fr_minutes
        IN  /\ fr_result = convert_time_diff_to_day_fraction(h, m)
            /\ fr_hours > 8 => fr_result = convert_time_diff_to_day_fraction(8, fr_minutes)
            /\ fr_minutes > 60 => fr_result = convert_time_diff_to_day_fraction(fr_hours, 60)
            /\ fr_result \in 0..1125

C4_Witness ==
    /\ fr_called
    /\ fr_hours > 8 /\ fr_minutes > 60
    /\ fr_result = 1125

-----------------------------------------------------------------------------
(* Properties of calculate_deductions, under Spec *)

\* the weekday of the selected date
SelectedDay == strftime_A(selected_date)

WorkingDays == {"Monday", "Tuesday", "Wednesday", "Thursday", "Friday"}

\* calculate_deductions ran last and wrote every result label
Calculated == last_event = "calculate_deductions"

\* calculate_deductions ran last and got past the morning part and the supposed time out
MorningCalculated ==
    last_event \in {"calculate_deductions", "calculate_deductions: Invalid Actual Time Out"}

\* the times in the two entries, as minutes since midnight
ActualIn == strptime_I_M_p(morning_actual_time_in)

ActualOut == strptime_I_M_p(afternoon_actual_time_out)

\* C5: with morning and afternoon worked the supposed time out is the time in clamped
\* to [07:30, 08:30], plus 540 minutes, clamped to [16:30, 17:00] on Monday and to
\* [16:30, 17:30] on other days; 07:00 on Tuesday gives 16:30, 09:00 on Monday 17:00,
\* 09:00 on Tuesday 17:30, and the result lies inside the bounds of the weekday
C5_FlexiSupposedTimeOut ==
    (MorningCalculated /\ morning_check /\ afternoon_check) =>
        LET in_clamped == IF ActualIn < 450 THEN 450 ELSE IF ActualIn > 510 THEN 510 ELSE ActualIn
            latest == IF SelectedDay = "Monday" THEN 1020 ELSE 1050
            out == IF in_clamped + 540 < 990 THEN 990
                   ELSE IF in_clamped + 540 > latest THEN latest ELSE in_clamped + 540
        IN  /\ label_supposed_time_out = strftime_I_M_p(out)
            /\ strptime_I_M_p(label_supposed_time_out) \in 990..latest
            /\ (SelectedDay = "Tuesday" /\ morning_actual_time_in = TimeText(7, 0, "AM"))
                   => label_supposed_time_out = TimeText(4, 30, "PM")
            /\ (SelectedDay = "Monday" /\ morning_actual_time_in = TimeText(9, 0, "AM"))
                   => label_supposed_time_out = TimeText(5, 0, "PM")
            /\ (SelectedDay = "Tuesday" /\ morning_actual_time_in = TimeText(9, 0, "AM"))
                   => label_supposed_time_out = TimeText(5, 30, "PM")

C5_Witness ==
    /\ Calculated /\ morning_check /\ afternoon_check
    /\ SelectedDay = "Monday"
    /\ morning_actual_time_in = TimeText(9, 0, "AM")
    /\ label_supposed_time_out = TimeText(5, 0, "PM")

\* Scenario A: Monday, time in 08:15, afternoon worked, time out 17:30, calculated
ScenarioA ==
    /\ Calculated /\ morning_check /\ afternoon_check
    /\ SelectedDay = "Monday"
    /\ morning_actual_time_in = TimeText(8, 15, "AM")
    /\ afternoon_actual_time_out = TimeText(5, 30, "PM")

\* C6 as stated: Scenario A yields late_minutes = 0, undertime_minutes = 0, total 0.000
C6_Original ==
    ScenarioA =>
        /\ label_morning_late = 0
        /\ label_afternoon_undertime = 0
        /\ label_deductions = 0

\* C6 amended: Scenario A yields late_minutes = 15 (supposed time in 08:00), late
\* deduction 0.031, undertime_minutes = 0 and total 0.031
C6_ScenarioA ==
    ScenarioA =>
        /\ label_morning_late = 15
        /\ label_morning_late_deduction = 31
        /\ label_afternoon_undertime = 0
        /\ label_afternoon_undertime_deduction = 0
        /\ label_deductions = 31

C6_Witness ==
    /\ ScenarioA
    /\ label_supposed_time_in = TimeText(8, 0, "AM")
    /\ label_supposed_time_out = TimeText(5, 0, "PM")
    /\ label_deductions = 31

\* C7: with the morning present on a weekday, late_minutes =
\* max(0, minutes(actual_in) - minutes(supposed_in)), supposed_in being 08:00 on Monday
\* and 08:30 on Tuesday..Friday, and late deduction = fraction(late // 60, late % 60);
\* Scenario B: Tuesday, time in 08:45, afternoon absent gives late_minutes = 15 and
\* total = table(15) + 0.5
C7_LateMinutes ==
    /\ (MorningCalculated /\ morning_check /\ SelectedDay \in WorkingDays) =>
           LET supposed_in == IF SelectedDay = "Monday" THEN 480 ELSE 510
               late == IF ActualIn - supposed_in > 0 THEN ActualIn - supposed_in ELSE 0
           IN  /\ label_morning_late = late
               /\ label_morning_late_deduction =
                      convert_time_diff_to_day_fraction(late \div 60, late % 60)
    /\ (Calculated /\ morning_check /\ ~afternoon_check /\ SelectedDay = "Tuesday"
        /\ morning_actual_time_in = TimeText(8, 45, "AM")) =>
           /\ label_morning_late = 15
           /\ label_morning_late_deduction = MinutesColumn[15 + 1]
           /\ label_deductions = MinutesColumn[15 + 1] + 500

C7_Witness ==
    /\ Calculated /\ morning_check /\ ~afternoon_check
    /\ SelectedDay = "Tuesday"
    /\ morning_actual_time_in = TimeText(8, 45, "AM")
    /\ label_morning_late = 15
    /\ label_deductions = 531

\* C8: with only the afternoon worked the supposed time out is 17:00 on Monday and
\* 17:30 on Tuesday..Friday, undertime_minutes =
\* max(0, minutes(supposed_out) - minutes(actual_out)) and total = table(undertime) + 0.5;
\* Scenario C: Wednesday, time out 17:00 gives undertime_minutes = 30, total = table(30) + 0.5
C8_OnlyAfternoon ==
    /\ (Calculated /\ ~morning_check /\ afternoon_check /\ SelectedDay \in WorkingDays) =>
           LET supposed_out == IF SelectedDay = "Monday" THEN 1020 ELSE 1050
               undertime == IF supposed_out - ActualOut > 0 THEN supposed_out - ActualOut ELSE 0
           IN  /\ label_supposed_time_out =
                      (IF SelectedDay = "Monday" THEN TimeText(5, 0, "PM") ELSE TimeText(5, 30, "PM"))
               /\ label_afternoon_undertime = undertime
               /\ label_deductions =
                      convert_time_diff_to_day_fraction(undertime \div 60, undertime % 60) + 500
    /\ (Calculated /\ ~morning_check /\ afternoon_check /\ SelectedDay = "Wednesday"
        /\ afternoon_actual_time_out = TimeText(5, 0, "PM")) =>
           /\ label_afternoon_undertime = 30
           /\ label_deductions = MinutesColumn[30 + 1] + 500

C8_Witness ==
    /\ Calculated /\ ~morning_check /\ afternoon_check
    /\ SelectedDay = "Wednesday"
    /\ afternoon_actual_time_out = TimeText(5, 0, "PM")
    /\ label_supposed_time_out = TimeText(5, 30, "PM")
    /\ label_afternoon_undertime = 30
    /\ label_deductions = 562

\* C9: with the afternoon absent (only the morning worked, or neither half) the
\* supposed time out is the sentinel "--:-- --" and undertime_minutes and the
\* undertime deduction are 0, whatever the morning time in is
C9_AfternoonAbsent ==
    (Calculated /\ ~afternoon_check) =>
        /\ label_supposed_time_out = SENTINEL
        /\ label_afternoon_undertime = 0
        /\ label_afternoon_undertime_deduction = 0

C9_Witness ==
    /\ Calculated /\ morning_check /\ ~afternoon_check
    /\ ActualIn = time(20, 45)
    /\ label_morning_late > 0
    /\ label_supposed_time_out = SENTINEL
    /\ label_afternoon_undertime = 0

\* C10: Scenario D: with morning and afternoon both absent the total deduction is
\* 1.000 (late 0, undertime 0, half-day 1.0) on every weekday Monday..Friday
C10_BothAbsent ==
    (Calculated /\ ~morning_check /\ ~afternoon_check /\ SelectedDay \in WorkingDays) =>
        /\ label_morning_late = 0
        /\ label_morning_late_deduction = 0
        /\ label_afternoon_undertime = 0
        /\ label_afternoon_undertime_deduction = 0
        /\ label_deductions = 1000

C10_Witness ==
    /\ Calculated /\ ~morning_check /\ ~afternoon_check
    /\ SelectedDay = "Friday"
    /\ label_deductions = 1000

-----------------------------------------------------------------------------
(* Properties of the total and of the rejected calculations, under Spec *)

\* the outcomes of calculate_deductions
CalcOutcomes ==
    { "calculate_deductions",
      "calculate_deductions: Invalid Actual Time In",
      "calculate_deductions: Supposed Time In is not set",
      "calculate_deductions: Invalid Actual Time Out" }

NonWorkingDays == {"Saturday", "Sunday"}

\* the six result fields of the form
ResultLabels ==
    <<label_morning_late, label_morning_late_deduction, label_supposed_time_out,
      label_afternoon_undertime, label_afternoon_undertime_deduction, label_deductions>>

\* C11: the half-day penalty is 0.5 for each of morning and afternoon that is absent
\* (0, 0.5 or 1.0), whatever the late and undertime deductions are, and after every
\* successful calculation total = round(late deduction + undertime deduction + penalty, 3)
C11_TotalIsSum ==
    Calculated =>
        LET penalty == (IF ~morning_check THEN 500 ELSE 0) + (IF ~afternoon_check THEN 500 ELSE 0)
        IN  /\ penalty \in {0, 500, 1000}
            /\ label_deductions =
                   label_morning_late_deduction + label_afternoon_undertime_deduction + penalty

C11_Witness ==
    /\ Calculated /\ morning_check /\ ~afternoon_check
    /\ SelectedDay = "Monday"
    /\ ActualIn = time(9, 0)
    /\ label_morning_late_deduction = 125
    /\ label_deductions = 625

C13_Original ==
    (Calculated /\ SelectedDay \in WorkingDays) => label_deductions <= 1000

\* C13 amended: 1.000 is the total for both halves absent and the largest half-day
\* penalty, not the largest total: the late and the undertime deduction are each at
\* most 1.125, and the total is at most 2.250 with both halves present, at most 1.625
\* with one half absent and exactly 1.000 with both absent
C13_TotalBounds ==
    Calculated =>
        /\ label_morning_late_deduction <= 1125
        /\ label_afternoon_undertime_deduction <= 1125
        /\ (morning_check /\ afternoon_check) => label_deductions <= 2250
        /\ (morning_check # afternoon_check) => label_deductions <= 1625
        /\ (~morning_check /\ ~afternoon_check) => label_deductions = 1000

C13_Witness ==
    /\ Calculated /\ morning_check /\ ~afternoon_check
    /\ SelectedDay = "Tuesday"
    /\ ActualIn = time(20, 45)
    /\ label_morning_late = 735
    /\ label_morning_late_deduction = 1031
    /\ label_deductions = 1531

\* C15: when a half marked present has an unparsable time, calculate_deductions ends
\* with an error and writes nothing: late minutes, late deduction, supposed time out,
\* undertime minutes, undertime deduction and total all keep the value they had
C15_NoPartialWrites ==
    [][(/\ calculate_deductions
        /\ last_event' \in { "calculate_deductions: Invalid Actual Time In",
                             "calculate_deductions: Invalid Actual Time Out" })
           => UNCHANGED ResultLabels]_vars

\* the result fields that calculate_deductions shows for a date, two presence flags
\* and two entered times when both entries that are needed parse and the day has a
\* supposed time in if the morning is present
ResultOf(date, morning, afternoon, entry_in, entry_out) ==
    LET day == strftime_A(date)
        actual_in == strptime_I_M_p(entry_in)
        actual_out == strptime_I_M_p(entry_out)
        supposed_in == IF day = "Monday" THEN 480 ELSE 510
        late == IF morning /\ actual_in > supposed_in THEN actual_in - supposed_in ELSE 0
        upper == IF day = "Monday" THEN 1020 ELSE 1050
        flexi == Max(990, Min(upper, Max(450, Min(510, actual_in)) + 540))
        supposed_out == IF morning THEN flexi ELSE upper
        undertime == IF afternoon /\ supposed_out > actual_out
                     THEN supposed_out - actual_out ELSE 0
        late_deduction ==
            DictGet(HOURS_TO_DAY, Min(late \div 60, 8)) + MINUTES_TO_DAY[late % 60]
        undertime_deduction ==
            DictGet(HOURS_TO_DAY, Min(undertime \div 60, 8)) + MINUTES_TO_DAY[undertime % 60]
    IN  << late, late_deduction,
           IF afternoon THEN strftime_I_M_p(supposed_out) ELSE SENTINEL,
           undertime, undertime_deduction,
           late_deduction + undertime_deduction
               + (IF morning THEN 0 ELSE 500) + (IF afternoon THEN 0 ELSE 500) >>

\* C16: the calculation keeps no state: whatever calculations, successful or aborted,
\* came before, the results shown by a calculation are a function of the date, the
\* two presence flags and the two entered times alone, and a second call in a row,
\* on unchanged inputs, leaves every field and the outcome as the first call left them
C16_Deterministic ==
    [][calculate_deductions =>
           /\ last_event' = "calculate_deductions" =>
                  ResultLabels' = ResultOf(selected_date, morning_check, afternoon_check,
                                           morning_actual_time_in, afternoon_actual_time_out)
           /\ last_event \in CalcOutcomes =>
                  (UNCHANGED form_vars /\ last_event' = last_event)]_vars

C16_Witness ==
    /\ Calculated /\ morning_check /\ afternoon_check
    /\ SelectedDay = "Tuesday"
    /\ ActualIn = time(8, 45) /\ ActualOut = time(16, 30)
    /\ label_morning_late_deduction = 31
    /\ label_afternoon_undertime_deduction = 125
    /\ label_deductions = 156

-----------------------------------------------------------------------------
(* Properties of the edited records, under SpecEdit *)

\* the supposed time in of a day name, in minutes: 08:00 on Monday, else 08:30
SupposedInMinutes(day) == IF day = "Monday" THEN 480 ELSE 510

\* C14: late_minutes and undertime_minutes are never negative, in the fields after
\* every calculate_deductions and in the record after every recalc_single_record; an
\* arrival at or before the supposed time in gives late 0 with deduction 0, a
\* departure at or after the supposed time out gives undertime 0 with deduction 0
C14_NeverNegative ==
    /\ label_morning_late >= 0
    /\ label_afternoon_undertime >= 0
    /\ (MorningCalculated /\ morning_check /\ ActualIn <= SupposedInMinutes(SelectedDay)) =>
           (label_morning_late = 0 /\ label_morning_late_deduction = 0)
    /\ (Calculated /\ afternoon_check
        /\ ActualOut >= strptime_I_M_p(label_supposed_time_out)) =>
           (label_afternoon_undertime = 0 /\ label_afternoon_undertime_deduction = 0)
    /\ \A i \in 1..Len(records) :
           LET r == records[i]
               day == strftime_A(Date(r.date[1], r.date[2], r.date[3]))
               arrival == strptime_I_M_p(r.morning_actual_time_in)
               departure == strptime_I_M_p(r.afternoon_actual_time_out)
               early == arrival = NoTime \/ arrival <= SupposedInMinutes(day)
               not_under == departure = NoTime
                            \/ departure >= strptime_I_M_p(r.supposed_time_out)
               absences == (IF r.morning_actual_time_in = SENTINEL THEN 1 ELSE 0)
                           + (IF r.afternoon_actual_time_out = SENTINEL THEN 1 ELSE 0)
           IN  /\ r.late_minutes >= 0
               /\ r.undertime_minutes >= 0
               /\ early => r.late_minutes = 0
               /\ not_under => r.undertime_minutes = 0
               /\ (early /\ not_under) => r.deduction_points = absences * 500

C14_Witness ==
    /\ last_event = "edit_record"
    /\ Len(records) = 1
    /\ records[1].date = <<2024, 2, 27>>
    /\ records[1].morning_actual_time_in = TimeText(7, 0, "AM")
    /\ records[1].afternoon_actual_time_out = TimeText(6, 0, "PM")
    /\ records[1].supposed_time_out = TimeText(4, 30, "PM")
    /\ records[1].late_minutes = 0
    /\ records[1].undertime_minutes = 0
    /\ records[1].deduction_points = 0

-----------------------------------------------------------------------------
(* Properties of the saved records, under SpecSave *)

\* a text in the format "%I:%M %p", or the sentinel
ClockTimeOrSentinel(text) == text = SENTINEL \/ strptime_I_M_p(text) # NoTime

\* C17: whatever date changes, toggles, clears and calculations came before the
\* save, every stored record has supposed_time_in and supposed_time_out each either
\* a formatted clock time or the sentinel "--:-- --"
C17_SupposedTimesFormatted ==
    \A i \in 1..Len(records) :
        /\ ClockTimeOrSentinel(records[i].supposed_time_in)
        /\ ClockTimeOrSentinel(records[i].supposed_time_out)

-----------------------------------------------------------------------------
(* Properties of the history, under SpecHistory *)

\* C18 as stated: after a successful save the new record is the last element of the
\* stored records and the records stored before keep their order
C18_Original ==
    [][\A add_record \in BOOLEAN :
           (save_record(add_record) /\ last_event' = "save_record") =>
               /\ records'[Len(records')] = new_record
               /\ SubSeq(records', 1, Len(records' ) - 1) = records]_vars

\* C18 amended: after a successful save the new record is the first element of the
\* stored records and the records stored before follow it in their order
C18_InsertedFirst ==
    [][\A add_record \in BOOLEAN :
           (save_record(add_record) /\ last_event' = "save_record") =>
               /\ Len(records') = Len(records) + 1
               /\ Head(records') = new_record
               /\ Tail(records') = records]_vars

C18_Witness ==
    /\ last_event = "save_record"
    /\ selected_date = Date(2024, 2, 27)
    /\ Len(records) = 2
    /\ records[1].date = <<2024, 2, 27>>
    /\ records[2].date = <<2024, 2, 26>>

\* the list without its element i
WithoutElement(list, i) == SubSeq(list, 1, i - 1) \o SubSeq(list, i + 1, Len(list))

\* C19: if the date has a record and the user declines, the stored records and the
\* data file stay as they are; if the user confirms, or the date has no record,
\* exactly one record, the new one, is added and the data file holds the new list
C19_SecondRecordOnlyIfConfirmed ==
    [][\A add_record \in BOOLEAN :
           save_record(add_record) =>
               IF /\ \E i \in 1..Len(records) : records[i].date = strftime_Y_m_d(selected_date)
                  /\ ~add_record
               THEN UNCHANGED <<records, data_file>>
               ELSE /\ Len(records') = Len(records) + 1
                    /\ \E i \in 1..Len(records') :
                           /\ records'[i] = new_record
                           /\ WithoutElement(records', i) = records
                    /\ data_file' = records']_vars

C19_Witness ==
    /\ last_event = "save_record: declined"
    /\ Len(records) = 1
    /\ records[1].date = strftime_Y_m_d(selected_date)
    /\ data_file = records

\* C20: the export writes one row for each stored record, with the record's eight
\* fields as they are stored (no record dropped, duplicated or changed), the rows in
\* the order of their dates, latest date first; with no stored record it writes nothing
C20_ExportRows ==
    [][\A file_chosen \in BOOLEAN :
           export_history(file_chosen) =>
               /\ records = <<>> => UNCHANGED csv_file
               /\ (records # <<>> /\ file_chosen) =>
                      LET rows == csv_file'.rows
                          n == Len(records)
                      IN  /\ Len(rows) = n
                          /\ \E f \in Permutations(1..n) :
                                 \A i \in 1..n :
                                     rows[i] =
                                         << records[f[i]].date,
                                            records[f[i]].morning_actual_time_in,
                                            records[f[i]].supposed_time_in,
                                            records[f[i]].late_minutes,
                                            records[f[i]].afternoon_actual_time_out,
                                            records[f[i]].supposed_time_out,
                                            records[f[i]].undertime_minutes,
                                            records[f[i]].deduction_points >>
                          /\ \A i \in 1..(n - 1) : ~date_str_less(rows[i][1], rows[i + 1][1])]_vars

C20_Witness ==
    /\ last_event = "export_history"
    /\ Len(records) = 2
    /\ records[1].date = <<2024, 2, 26>>
    /\ records[2].date = <<2024, 2, 27>>
    /\ Len(csv_file.rows) = 2
    /\ csv_file.rows[1][1] = <<2024, 2, 27>>
    /\ csv_file.rows[2][1] = <<2024, 2, 26>>

-----------------------------------------------------------------------------
(* Properties of the day and the supposed time in, under Spec *)

\* C28: after every date change (combo boxes or shortcuts, rejected invalid dates
\* included), toggle, clear and calculation, current_day is the weekday name of
\* selected_date, and while Morning is checked the Supposed Time In label is the
\* policy value of that weekday: 08:00 on Monday, 08:30 on Tuesday..Friday, the
\* sentinel on Saturday and Sunday
C28_DayInSync ==
    /\ current_day = strftime_A(selected_date)
    /\ morning_check =>
           label_supposed_time_in =
               (IF current_day = "Monday" THEN TimeText(8, 0, "AM")
                ELSE IF current_day \in {"Tuesday", "Wednesday", "Thursday", "Friday"}
                THEN TimeText(8, 30, "AM")
                ELSE SENTINEL)

C28_Witness ==
    /\ last_event = "on_date_change: Invalid date selected"
    /\ selected_date = Date(2024, 2, 26)
    /\ current_day = "Monday"
    /\ morning_check
    /\ label_supposed_time_in = TimeText(8, 0, "AM")
    /\ label_deductions > 0

-----------------------------------------------------------------------------
(* Properties of the deduction as a function of the minutes, under SpecLate *)

LateMinutes == fr_hours * 60 + fr_minutes

DeductionOfMinutes(m) == convert_time_diff_to_day_fraction(m \div 60, m % 60)

\* C25 as stated: the deduction of m1 minutes is at most the deduction of every
\* larger number of minutes up to 1439
C25_Original ==
    (fr_called /\ LateMinutes <= 1439) =>
        \A m2 \in LateMinutes..1439 : fr_result <= DeductionOfMinutes(m2)

\* C25: the deduction is non-decreasing in the minutes late (short) up to 8 hours
\* 59 minutes: for 0 <= m1 <= m2 <= 539 the deduction of m1 minutes is at most
\* the deduction of m2 minutes; from 9 hours on the hours are clamped to 8 while
\* the minutes of the hour are still added, so that 540 minutes give 1.000 after
\* 539 minutes gave more
C25_MonotoneUpTo539 ==
    /\ (fr_called /\ LateMinutes <= 539) =>
           \A m2 \in LateMinutes..539 : fr_result <= DeductionOfMinutes(m2)
    /\ (fr_called /\ LateMinutes = 539) => fr_result > DeductionOfMinutes(540)

C25_Witness ==
    /\ fr_called
    /\ LateMinutes = 539
    /\ fr_result = 1123

-----------------------------------------------------------------------------
(* Properties of the time picker, under SpecPicker *)

\* C30: a time of day 00:00..23:59 written to an entry as open_time_picker writes
\* it, read back as open_time_picker reads it, shown as TimePickerDialog.__init__
\* shows it and returned as on_ok returns it is the same time, and the entry
\* written from it is the same entry
C30_RoundTrip ==
    (pk_called /\ pk_time \in 0..1439) =>
        /\ pk_time_obj = pk_time
        /\ pk_display.hh \in 1..12
        /\ pk_display = picker_entry(pk_time)
        /\ pk_selected_time = pk_time
        /\ pk_entry = picker_entry(pk_time)
        /\ (pk_time \div 60 = 0) => (pk_display.hh = 12 /\ pk_display.ampm = "AM")
        /\ (pk_time \div 60 = 12) => (pk_display.hh = 12 /\ pk_display.ampm = "PM")

C30_Witness ==
    /\ pk_called
    /\ pk_time = 5
    /\ pk_display = TimeText(12, 5, "AM")
    /\ pk_selected_time = 5

-----------------------------------------------------------------------------
(* Properties of the edit of a record, under SpecEdit *)

\* a stored time string that is a valid time or the sentinel
ValidOrSentinel(text) == text = SENTINEL \/ strptime_I_M_p(text) # NoTime

\* a time string that is present and that "%I:%M %p" does not parse
PresentUnparsable(text) == text # SENTINEL /\ text # EMPTY /\ strptime_I_M_p(text) = NoTime

\* C21: after an edit, every record of a weekday date whose two stored time
\* strings are valid times or the sentinel has the supposed time in, late minutes,
\* supposed time out, undertime minutes and deduction points that
\* calculate_deductions gives for the same date, the same presence (sentinel =
\* absent) and the same times
C21_EditRecalculates ==
    last_event = "edit_record" =>
        \A i \in 1..Len(records) :
            LET r == records[i]
                date == Date(r.date[1], r.date[2], r.date[3])
                day == strftime_A(date)
                morning == r.morning_actual_time_in # SENTINEL
                afternoon == r.afternoon_actual_time_out # SENTINEL
                result == ResultOf(date, morning, afternoon,
                                   r.morning_actual_time_in, r.afternoon_actual_time_out)
            IN  ( /\ day \in WorkingDays
                  /\ ValidOrSentinel(r.morning_actual_time_in)
                  /\ ValidOrSentinel(r.afternoon_actual_time_out) ) =>
                    /\ r.supposed_time_in =
                           (IF morning THEN strftime_I_M_p(SupposedInMinutes(day))
                            ELSE SENTINEL)
                    /\ r.late_minutes = result[1]
                    /\ r.supposed_time_out = result[3]
                    /\ r.undertime_minutes = result[4]
                    /\ r.deduction_points = result[6]

C21_Witness ==
    /\ last_event = "edit_record"
    /\ Len(records) = 1
    /\ records[1].date = <<2024, 2, 26>>
    /\ records[1].morning_actual_time_in = TimeText(9, 15, "AM")
    /\ records[1].afternoon_actual_time_out = TimeText(4, 0, "PM")
    /\ records[1].supposed_time_in = TimeText(8, 0, "AM")
    /\ records[1].late_minutes = 75
    /\ records[1].supposed_time_out = TimeText(5, 0, "PM")
    /\ records[1].undertime_minutes = 60

\* C22: an edit with a time field that is present and unparsable ends with an
\* error and leaves the stored records as they were
C22_UnparsableRejected ==
    [][\A item \in 1..Len(current_records) :
         \A morning_text \in EditMorningTexts, afternoon_text \in EditAfternoonTexts :
           ( /\ edit_record(item, morning_text, afternoon_text)
             /\ PresentUnparsable(morning_text) \/ PresentUnparsable(afternoon_text) ) =>
               /\ records' = records
               /\ data_file' = data_file
               /\ last_event' # "edit_record"]_vars

\* the state C22 excludes: an unparsable string stored by a successful edit
C22_UnparsableStored ==
    /\ last_event = "edit_record"
    /\ \E i \in 1..Len(records) :
           /\ records[i].morning_actual_time_in = UNPARSABLE
           /\ records[i].late_minutes = 0

-----------------------------------------------------------------------------
(* Properties of the records added by save_record, under SpecSave *)

\* C24: every stored record of a weekday date whose two time strings are valid
\* times or the sentinel has the late minutes, undertime minutes and deduction
\* points that calculate_deductions gives for the record's own date, presence and
\* times
C24_SavedRecordsSelfConsistent ==
    \A i \in 1..Len(records) :
        LET r == records[i]
            date == Date(r.date[1], r.date[2], r.date[3])
            morning == r.morning_actual_time_in # SENTINEL
            afternoon == r.afternoon_actual_time_out # SENTINEL
            result == ResultOf(date, morning, afternoon,
                               r.morning_actual_time_in, r.afternoon_actual_time_out)
        IN  ( /\ strftime_A(date) \in WorkingDays
              /\ ValidOrSentinel(r.morning_actual_time_in)
              /\ ValidOrSentinel(r.afternoon_actual_time_out) ) =>
                /\ r.late_minutes = result[1]
                /\ r.undertime_minutes = result[4]
                /\ r.deduction_points = result[6]

\* the state C24 excludes: a record of a day with both halves absent that carries
\* the total of an earlier calculation with the morning present
C24_LeftoverTotal ==
    /\ last_event = "save_record"
    /\ Len(records) = 1
    /\ records[1].date = <<2024, 3, 1>>
    /\ records[1].morning_actual_time_in = SENTINEL
    /\ records[1].afternoon_actual_time_out = SENTINEL
    /\ records[1].late_minutes = 0
    /\ records[1].deduction_points = 531

-----------------------------------------------------------------------------
(* Properties of the history view, under SpecView *)

\* the view shows the stored records of the selected date, and no search is on
SingleDateView ==
    /\ ~search_active
    /\ current_records = records_of_date(records, selected_date)

\* the two lists hold the same records the same number of times
SameRecords(a, b) ==
    /\ Len(a) = Len(b)
    /\ \A i \in 1..Len(a) :
           Cardinality({ j \in 1..Len(a) : a[j] = a[i] })
               = Cardinality({ j \in 1..Len(b) : b[j] = a[i] })

\* C23: at the start, after Reset and after every change of the selected date (day
\* combo or shortcut) search_active is false and the displayed records are the
\* stored records of the selected date, in their stored order
C23_SingleDateMode ==
    [][ /\ last_event = "__init__" => SingleDateView
        /\ last_event' = "reset_history" => SingleDateView'
        /\ selected_date' # selected_date => SingleDateView' ]_vars

C23_Witness ==
    /\ last_event = "reset_history"
    /\ last_search # NO_SEARCH
    /\ ~search_active
    /\ Len(records) = 2
    /\ records[1].date # records[2].date
    /\ Len(current_records) = 1
    /\ current_records[1].date = strftime_Y_m_d(selected_date)

\* C27: while search_active is true the displayed records are the stored records
\* whose date lies in the range of the last search, and a search with the From
\* date after the To date changes neither the displayed records nor search_active
C27_SearchViewInRange ==
    [][ /\ search_active' =>
               SameRecords(current_records',
                           records_in_range(records', last_search'[1], last_search'[2]))
        /\ last_event' = "search_history: Invalid Range" =>
               UNCHANGED <<current_records, search_active>> ]_vars

\* the state C27 excludes: after a save during a search the view shows one of two
\* stored records that both lie in the searched range
C27_SavedUnderSearch ==
    /\ last_event = "save_record"
    /\ search_active
    /\ Len(records) = 2
    /\ Len(records_in_range(records, last_search[1], last_search[2])) = 2
    /\ Len(current_records) = 1

\* C29: the stored records and the data file change only in a step of save_record,
\* of the edit of a record or of delete_record (ended or left by an IndexError); a
\* column sort leaves them as they are and gives the displayed list the same
\* records in some order
C29_StoredRecordsUntouched ==
    [][ /\ (records' # records \/ data_file' # data_file) =>
               last_event' \in {"save_record", "edit_record", "delete_record",
                                 "delete_record: IndexError"}
        /\ last_event' = "sort_by_column" =>
               /\ records' = records
               /\ SameRecords(current_records', current_records) ]_vars

C29_Witness ==
    /\ last_event = "sort_by_column"
    /\ search_active
    /\ Len(records) = 2
    /\ Len(current_records) = 2
    /\ records[1].date # records[2].date
    /\ current_records[1] = records[2]
    /\ current_records[2] = records[1]

-----------------------------------------------------------------------------
(* Properties of delete_record, under SpecDelete *)

\* the number of entries of list with the date and the two times of row
KeyCount(list, row) ==
    Cardinality({ i \in 1..Len(list) :
                    /\ list[i].date = row.date
                    /\ list[i].morning_actual_time_in = row.morning_actual_time_in
                    /\ list[i].afternoon_actual_time_out = row.afternoon_actual_time_out })

\* C26: a confirmed delete removes one record for each selected row, with the
\* date and the two times of that row, and no other record: the stored records
\* lose as many entries as rows are selected, and for every stored record the
\* number of records with its date and times falls by the number of selected rows
\* with that date and those times
C26_DeletesSelectedRows ==
    [][\A selected_items \in SUBSET (1..Len(current_records)) :
          (selected_items # {} /\ delete_record(selected_items, TRUE)) =>
              /\ Len(records') = Len(records) - Cardinality(selected_items)
              /\ \A i \in 1..Len(records) :
                     KeyCount(records', records[i]) =
                         KeyCount(records, records[i])
                         - Cardinality({ item \in selected_items :
                               /\ current_records[item].date = records[i].date
                               /\ current_records[item].morning_actual_time_in =
                                      records[i].morning_actual_time_in
                               /\ current_records[item].afternoon_actual_time_out =
                                      records[i].afternoon_actual_time_out })]_vars

====
